---- MODULE Spec2Model ----
(***************************************************************************)
(* TopShelf bonus engine: tier resolution, receipt aggregation, scoring,   *)
(* payout assembly and the forecast gate, as implemented under src/core.   *)
(*                                                                         *)
(* Numbers: prices, quantities and revenues are integers; every value the  *)
(* code obtains by a division (a bonus, a required revenue) is kept as an  *)
(* exact rational [num, den] in lowest terms.  IEEE-754 rounding is not    *)
(* modelled.                                                               *)
(* JavaScript null / undefined object values are the record Null; an       *)
(* absent property is an absent record field; an absent string property    *)
(* is the string Undefined.                                                *)
(***************************************************************************)
EXTENDS Integers, Sequences, FiniteSets, TLC

VARIABLES
    forecast,    \* the Forecast row of the requested period, or Null
    categories,  \* prisma.category rows with their tierRules
    receipts,    \* prisma.receipt rows of the requested period
    op,          \* the operation that ran last
    input,       \* its arguments
    result,      \* what it returned or threw
    tokens,      \* prisma.accessToken and prisma.inviteToken rows, and the user
    pending      \* the handlers that are between two awaits, with their locals

vars == <<forecast, categories, receipts, op, input, result, tokens, pending>>

Null == [null |-> TRUE]
Undefined == "undefined"

(***************************************************************************)
(* Exact rationals.                                                        *)
(***************************************************************************)
Abs(n) == IF n < 0 THEN -n ELSE n

RECURSIVE Gcd(_, _)
Gcd(a, b) == IF b = 0 THEN a ELSE Gcd(b, a % b)

\* n/d in lowest terms, d > 0
Rat(n, d) ==
    LET g == Gcd(Abs(n), d) IN [num |-> n \div g, den |-> d \div g]

Zero == Rat(0, 1)
RatAdd(a, b) == Rat(a.num * b.den + b.num * a.den, a.den * b.den)
RatLess(a, b) == a.num * b.den < b.num * a.den
RatPositive(a) == a.num > 0

(***************************************************************************)
(* Sequence helpers.                                                       *)
(***************************************************************************)
Range(s) == {s[i] : i \in 1..Len(s)}

\* all sequences over S of length at most n
SeqsUpTo(S, n) == UNION {[1..k -> S] : k \in 0..n}

\* the permutations of sequence s, as sequences
PermutationsOf(s) ==
    {[i \in 1..Len(s) |-> s[p[i]]] :
        p \in {q \in [1..Len(s) -> 1..Len(s)] : \A i, j \in 1..Len(s) : q[i] = q[j] => i = j}}

(***************************************************************************)
(* services/utils.js: getApplicableTier                                    *)
(***************************************************************************)
\* Array.prototype.sort((a, b) => a.minQuantity - b.minQuantity): stable, ascending
RECURSIVE InsertByMinQuantity(_, _)
InsertByMinQuantity(sorted, t) ==
    IF sorted = <<>> THEN <<t>>
    ELSE IF Head(sorted).minQuantity <= t.minQuantity
         THEN <<Head(sorted)>> \o InsertByMinQuantity(Tail(sorted), t)
         ELSE <<t>> \o sorted

RECURSIVE SortByMinQuantity(_)
SortByMinQuantity(tiers) ==
    IF tiers = <<>> THEN <<>>
    ELSE InsertByMinQuantity(SortByMinQuantity(SubSeq(tiers, 1, Len(tiers) - 1)),
                             tiers[Len(tiers)])

\* .at(-1) ?? null
LastOrNull(s) == IF s = <<>> THEN Null ELSE s[Len(s)]

\* mutant: the first qualifying tier instead of the last (.at(0))
getApplicableTierFirst(quantity, tiers) ==
    LET qualifying == SelectSeq(SortByMinQuantity(tiers),
                                LAMBDA t : quantity >= t.minQuantity)
    IN  IF qualifying = <<>> THEN Null ELSE qualifying[1]

\* mutant: the comparison the wrong way round (quantity <= t.minQuantity)
getApplicableTierInverted(quantity, tiers) ==
    LastOrNull(SelectSeq(SortByMinQuantity(tiers),
                         LAMBDA t : quantity <= t.minQuantity))

getApplicableTier(quantity, tiers) ==
    LastOrNull(SelectSeq(SortByMinQuantity(tiers),
                         LAMBDA t : quantity >= t.minQuantity))

(***************************************************************************)
(* engine/tierConfig.js: TierConfig                                        *)
(***************************************************************************)
Ok(v) == [threw |-> FALSE, value |-> v]
Throw(message) == [threw |-> TRUE, value |-> message]

\* #validateAndNormalizeTiers: tiers carry {minQuantity, percentage}; percentage is a rational
validateAndNormalizeTiers(tiers) ==
    IF tiers = <<>> THEN Throw("tiers must be a non-empty array")
    ELSE IF \E t \in Range(tiers) :
                "minQuantity" \notin DOMAIN t \/ "percentage" \notin DOMAIN t
         THEN Throw("Invalid tier format")
    ELSE IF \E t \in Range(tiers) :
                RatLess(t.percentage, Zero) \/ RatLess(Rat(1, 1), t.percentage)
         THEN Throw("percentage must be between 0 and 1")
    ELSE Ok(SortByMinQuantity(
                [i \in 1..Len(tiers) |->
                    [minQuantity |-> tiers[i].minQuantity,
                     percentage |-> tiers[i].percentage]]))

\* the for-loop of TierConfig.getApplicableTier over this.tiers
RECURSIVE ScanTiers(_, _, _)
ScanTiers(tiers, quantity, applicableTier) ==
    IF tiers = <<>> THEN applicableTier
    ELSE ScanTiers(Tail(tiers), quantity,
                   IF quantity >= Head(tiers).minQuantity
                   THEN Head(tiers) ELSE applicableTier)

TierConfigGetApplicableTier(thisTiers, quantity) ==
    ScanTiers(thisTiers, quantity, Null)

(***************************************************************************)
(* Inputs of the tier-resolution checks.                                   *)
(***************************************************************************)
MaxTiers == 3
MaxQuantity == 6

Quantities == -1..MaxQuantity
TierMinQuantities == {0, 2, 5}
BonusPercentages == {5, 10, 15}
Percentages == {Rat(1, 20), Rat(1, 10), Rat(3, 2)}

TierRules == [minQuantity : TierMinQuantities, bonusPercentage : BonusPercentages]
TierRuleLists == SeqsUpTo(TierRules, MaxTiers)
ConfigTiers == [minQuantity : TierMinQuantities, percentage : Percentages]
ConfigTierLists == SeqsUpTo(ConfigTiers, MaxTiers)

IdleDb ==
    /\ forecast = Null /\ categories = <<>> /\ receipts = <<>>
    /\ tokens = Null /\ pending = <<>>

\* op while a call is pending, and once it has returned or thrown
Calling(name) == <<"call", name>>
Returned(name) == <<"return", name>>

InitTier ==
    /\ IdleDb
    /\ result = Null
    /\ \/ /\ op = Calling("getApplicableTier")
          /\ input \in [quantity : Quantities, tiers : TierRuleLists]
       \/ /\ op = Calling("TierConfig.getApplicableTier")
          /\ input \in [quantity : Quantities, tiers : ConfigTierLists]

ResolveTier ==
    /\ op = Calling("getApplicableTier")
    /\ op' = Returned("getApplicableTier")
    /\ result' = getApplicableTier(input.quantity, input.tiers)
    /\ UNCHANGED <<forecast, categories, receipts, input, tokens, pending>>

\* new TierConfig(tiers).getApplicableTier(quantity)
ResolveTierConfig ==
    /\ op = Calling("TierConfig.getApplicableTier")
    /\ op' = Returned("TierConfig.getApplicableTier")
    /\ LET config == validateAndNormalizeTiers(input.tiers) IN
       result' = IF config.threw THEN config
                 ELSE Ok(TierConfigGetApplicableTier(config.value, input.quantity))
    /\ UNCHANGED <<forecast, categories, receipts, input, tokens, pending>>

NextTier == ResolveTier \/ ResolveTierConfig

SpecTier == InitTier /\ [][NextTier]_vars

(***************************************************************************)
(* The tier invariant of the data model: distinct minQuantity, distinct    *)
(* percentage, percentage strictly increasing with minQuantity.            *)
(***************************************************************************)
DistinctMinQuantities(tiers) ==
    \A i, j \in 1..Len(tiers) :
        tiers[i].minQuantity = tiers[j].minQuantity => i = j

ValidTierRules(tiers) ==
    /\ tiers # <<>>
    /\ DistinctMinQuantities(tiers)
    /\ \A t \in Range(tiers) :
        t.minQuantity >= 0 /\ t.bonusPercentage > 0 /\ t.bonusPercentage <= 100
    /\ \A i, j \in 1..Len(tiers) :
        tiers[i].minQuantity < tiers[j].minQuantity
            => tiers[i].bonusPercentage < tiers[j].bonusPercentage

ValidConfigTiers(tiers) ==
    /\ tiers # <<>>
    /\ DistinctMinQuantities(tiers)
    /\ \A t \in Range(tiers) :
        /\ t.minQuantity >= 0
        /\ RatPositive(t.percentage)
        /\ ~RatLess(Rat(1, 1), t.percentage)
    /\ \A i, j \in 1..Len(tiers) :
        tiers[i].minQuantity < tiers[j].minQuantity
            => RatLess(tiers[i].percentage, tiers[j].percentage)

\* what "the tier with the largest minQuantity <= quantity, else null" asks of r
HighestQualifying(r, quantity, tiers) ==
    /\ (r = Null) <=> (\A t \in Range(tiers) : t.minQuantity > quantity)
    /\ r # Null =>
        /\ r \in Range(tiers)
        /\ r.minQuantity <= quantity
        /\ \A t \in Range(tiers) :
            t.minQuantity <= quantity => t.minQuantity <= r.minQuantity

\* C4 as stated: for EVERY tier list, getApplicableTier returns the tier with the
\* largest minQuantity <= quantity, whatever the order the tiers were supplied in,
\* and null when the quantity is below every minimum.
C4Original ==
    op = Returned("getApplicableTier") =>
        /\ HighestQualifying(result, input.quantity, input.tiers)
        /\ \A p \in PermutationsOf(input.tiers) :
            getApplicableTier(input.quantity, p) = result

\* C4 amended: the same for every tier list whose minQuantity values are pairwise
\* distinct (two tiers sharing a minQuantity are told apart only by their order).
C4TierResolution ==
    (op = Returned("getApplicableTier") /\ DistinctMinQuantities(input.tiers)) =>
        /\ HighestQualifying(result, input.quantity, input.tiers)
        /\ \A p \in PermutationsOf(input.tiers) :
            getApplicableTier(input.quantity, p) = result

\* an unsorted list in which two tiers qualify and the higher one was returned
C4Witness ==
    /\ op = Returned("getApplicableTier")
    /\ DistinctMinQuantities(input.tiers)
    /\ Len(input.tiers) = 3
    /\ input.tiers[1].minQuantity > input.tiers[2].minQuantity
    /\ result # Null
    /\ \E t \in Range(input.tiers) :
        t.minQuantity <= input.quantity /\ t.minQuantity < result.minQuantity
    /\ \E t \in Range(input.tiers) : t.minQuantity > input.quantity

\* C5: on a valid tier table resolution is monotonic (q1 < q2 and both resolve
\* give resolve(q1).bonusPercentage <= resolve(q2).bonusPercentage), and a
\* quantity below the smallest minQuantity resolves to null; for the utils
\* resolver and for TierConfig.
C5MonotonicTiers ==
    /\ (op = Returned("getApplicableTier") /\ ValidTierRules(input.tiers)) =>
        /\ \A q1 \in Quantities :
            LET r1 == getApplicableTier(q1, input.tiers) IN
            (q1 < input.quantity /\ r1 # Null /\ result # Null)
                => r1.bonusPercentage <= result.bonusPercentage
        /\ (\A t \in Range(input.tiers) : input.quantity < t.minQuantity)
            => result = Null
    /\ (op = Returned("TierConfig.getApplicableTier") /\ ValidConfigTiers(input.tiers)) =>
        /\ ~result.threw
        /\ \A q1 \in Quantities :
            LET r1 == TierConfigGetApplicableTier(
                          validateAndNormalizeTiers(input.tiers).value, q1) IN
            (q1 < input.quantity /\ r1 # Null /\ result.value # Null)
                => ~RatLess(result.value.percentage, r1.percentage)
        /\ (\A t \in Range(input.tiers) : input.quantity < t.minQuantity)
            => result.value = Null

\* a valid three-tier table where a smaller quantity resolves to a strictly lower tier
C5Witness ==
    /\ op = Returned("getApplicableTier")
    /\ ValidTierRules(input.tiers)
    /\ Len(input.tiers) = 3
    /\ result # Null
    /\ \E q1 \in Quantities :
        /\ q1 < input.quantity
        /\ getApplicableTier(q1, input.tiers) # Null
        /\ getApplicableTier(q1, input.tiers).bonusPercentage < result.bonusPercentage
    /\ \E q0 \in Quantities : getApplicableTier(q0, input.tiers) = Null

(***************************************************************************)
(* engine/bonusCalculator.js: BonusCalculator.calculateBonus               *)
(* A sale is {productName, quantity, revenue, tier, products}; JS null in  *)
(* a string slot of a line item is the string NullString.                  *)
(***************************************************************************)
NullString == "null"

\* mutant: a tier of 0% counts as qualifying (>= 0)
TierPaysOrZero(tier) ==
    /\ tier # Null
    /\ "bonusPercentage" \in DOMAIN tier
    /\ tier.bonusPercentage >= 0

\* tier && typeof tier.bonusPercentage === 'number' && tier.bonusPercentage > 0
TierPays(tier) ==
    /\ tier # Null
    /\ "bonusPercentage" \in DOMAIN tier
    /\ tier.bonusPercentage > 0

\* mutant: the percentage used as a factor, without the division by 100
QualifiedBonusUndivided(revenue, tier) == Rat(revenue * tier.bonusPercentage, 1)

\* bonus = revenue * tier.bonusPercentage / 100
QualifiedBonus(revenue, tier) == Rat(revenue * tier.bonusPercentage, 100)

\* sale[name], undefined when the sale has no such property
Prop(sale, name) == IF name \in DOMAIN sale THEN sale[name] ELSE Undefined

\* one pass of the loop body: the line item pushed for a sale
ScoreSale(sale) ==
    IF TierPays(sale.tier)
    THEN [productName |-> Prop(sale, "productName"),
          quantity |-> sale.quantity,
          revenue |-> sale.revenue,
          tierQualified |-> ToString(sale.tier.minQuantity) \o "+ items",
          bonusPercentage |-> sale.tier.bonusPercentage,
          bonus |-> QualifiedBonus(sale.revenue, sale.tier),
          qualified |-> TRUE,
          reason |-> NullString,
          products |-> Prop(sale, "products")]
    ELSE [productName |-> Prop(sale, "productName"),
          quantity |-> sale.quantity,
          revenue |-> sale.revenue,
          tierQualified |-> NullString,
          bonusPercentage |-> 0,
          bonus |-> Zero,
          qualified |-> FALSE,
          reason |-> "Below minimum threshold (sold "
                        \o ToString(sale.quantity) \o ")",
          products |-> Prop(sale, "products")]

\* totalBonus after the loop: += bonus for every qualifying sale, in order
RECURSIVE AccumulateBonus(_, _)
AccumulateBonus(sales, totalBonus) ==
    IF sales = <<>> THEN totalBonus
    ELSE AccumulateBonus(
            Tail(sales),
            IF TierPays(Head(sales).tier)
            THEN RatAdd(totalBonus, ScoreSale(Head(sales)).bonus)
            ELSE totalBonus)

\* salesData is [isArray, items]: a non-array argument (null) has isArray = FALSE
calculateBonus(salesData) ==
    IF ~salesData.isArray \/ Len(salesData.items) = 0
    THEN [totalBonus |-> Zero, items |-> <<>>]
    ELSE [totalBonus |-> AccumulateBonus(salesData.items, Zero),
          items |-> [i \in 1..Len(salesData.items) |-> ScoreSale(salesData.items[i])]]

(***************************************************************************)
(* Inputs of the scoring checks.                                           *)
(***************************************************************************)
MaxFacts == 2

SaleTiers ==
    {Null,
     [minQuantity |-> 5],
     [minQuantity |-> 5, bonusPercentage |-> 0],
     [minQuantity |-> 5, bonusPercentage |-> -5],
     [minQuantity |-> 2, bonusPercentage |-> 5],
     [minQuantity |-> 5, bonusPercentage |-> 10]}

Sales ==
    [productName : {"Ribeye"}, quantity : {1, 5}, revenue : {0, 150},
     tier : SaleTiers, products : {<<>>}]
    \cup
    [productName : {Undefined}, quantity : {1, 5}, revenue : {0, 150},
     tier : SaleTiers, products : {<<"Martini", "Negroni">>}]

SalesDataInputs ==
    {[isArray |-> FALSE, items |-> <<>>]}
    \cup {[isArray |-> TRUE, items |-> items] : items \in SeqsUpTo(Sales, MaxFacts)}

InitScore ==
    /\ IdleDb
    /\ result = Null
    /\ op = Calling("calculateBonus")
    /\ input \in [salesData : SalesDataInputs]

Score ==
    /\ op = Calling("calculateBonus")
    /\ op' = Returned("calculateBonus")
    /\ result' = calculateBonus(input.salesData)
    /\ UNCHANGED <<forecast, categories, receipts, input, tokens, pending>>

NextScore == Score

SpecScore == InitScore /\ [][NextScore]_vars

\* the sum of the bonus fields of a sequence of line items
RECURSIVE SumItemBonus(_)
SumItemBonus(items) ==
    IF items = <<>> THEN Zero
    ELSE RatAdd(items[Len(items)].bonus, SumItemBonus(SubSeq(items, 1, Len(items) - 1)))

\* a fact qualifies when it has a matched tier whose percentage is a positive number
FactQualifies(fact) ==
    /\ fact.tier # Null
    /\ "bonusPercentage" \in DOMAIN fact.tier
    /\ fact.tier.bonusPercentage >= 1

\* C6: every qualifying fact is scored bonus = revenue * bonusPercentage / 100 on
\* its whole revenue with its one matched tier and labelled "<minQuantity>+ items",
\* and totalBonus is the sum of the bonus of all returned items.
C6ScoringFormula ==
    op = Returned("calculateBonus") =>
        LET facts == input.salesData.items IN
        /\ \A i \in 1..Len(facts) :
            FactQualifies(facts[i]) =>
                /\ i \in DOMAIN result.items
                /\ result.items[i].bonus.num * 100
                     = facts[i].revenue * facts[i].tier.bonusPercentage
                        * result.items[i].bonus.den
                /\ result.items[i].bonusPercentage = facts[i].tier.bonusPercentage
                /\ result.items[i].tierQualified
                     = ToString(facts[i].tier.minQuantity) \o "+ items"
        /\ result.totalBonus = SumItemBonus(result.items)

\* two qualifying facts on different tiers, one bonus not a whole number
C6Witness ==
    /\ op = Returned("calculateBonus")
    /\ Len(result.items) = 2
    /\ result.items[1].qualified /\ result.items[2].qualified
    /\ result.items[1].bonusPercentage # result.items[2].bonusPercentage
    /\ result.items[1].bonus.den # 1
    /\ RatLess(result.items[1].bonus, result.totalBonus)

\* C8: qualified is false exactly when the matched tier is null or its percentage
\* is not a positive number; such an item has bonus 0, no tier label and the
\* reason "Below minimum threshold (sold <quantity>)"; a qualified item has no reason.
C8QualificationRule ==
    op = Returned("calculateBonus") =>
        LET facts == input.salesData.items IN
        \A i \in 1..Len(result.items) :
            LET item == result.items[i] IN
            /\ ~item.qualified <=> ~FactQualifies(facts[i])
            /\ ~item.qualified =>
                /\ item.bonus = Zero
                /\ item.tierQualified = NullString
                /\ item.reason = "Below minimum threshold (sold "
                                    \o ToString(facts[i].quantity) \o ")"
            /\ item.qualified => item.reason = NullString

\* a tier of 0% next to a paying tier: one item refused with its reason, one paid
C8Witness ==
    /\ op = Returned("calculateBonus")
    /\ Len(result.items) = 2
    /\ input.salesData.items[1].tier = [minQuantity |-> 5, bonusPercentage |-> 0]
    /\ ~result.items[1].qualified
    /\ result.items[1].reason = "Below minimum threshold (sold 5)"
    /\ result.items[2].qualified

(***************************************************************************)
(* engine/bonusPayouts.js: BonusPayouts.calculateBonuses                   *)
(* A JS object iterated with Object.entries is the sequence of its entries *)
(* in insertion order: aggregatedSales is a sequence of                    *)
(* [seller, categories], categories a sequence of [category, salesData].   *)
(* this.calculators is the set of category names that have a calculator.   *)
(***************************************************************************)
\* the inner loop: the breakdown entries of one seller
RECURSIVE SellerBreakdown(_, _)
SellerBreakdown(entries, calculators) ==
    IF entries = <<>> THEN <<>>
    ELSE LET category == Head(entries).category
             scored == calculateBonus(Head(entries).salesData)
             rest == SellerBreakdown(Tail(entries), calculators)
         IN  IF category \notin calculators THEN rest
             ELSE IF RatPositive(scored.totalBonus)
                  THEN <<[category |-> category,
                          bonus |-> scored.totalBonus,
                          items |-> scored.items]>> \o rest
                  ELSE rest

\* mutant: the total overwritten by each category's bonus instead of added to
SumBreakdownOverwritten(breakdown, totalBonus) ==
    IF breakdown = <<>> THEN totalBonus ELSE breakdown[Len(breakdown)].bonus

\* totalBonus += result.totalBonus over the entries kept
RECURSIVE SumBreakdown(_, _)
SumBreakdown(breakdown, totalBonus) ==
    IF breakdown = <<>> THEN totalBonus
    ELSE SumBreakdown(Tail(breakdown), RatAdd(totalBonus, Head(breakdown).bonus))

\* the outer loop: the payouts pushed, in encounter order
RECURSIVE CollectPayouts(_, _)
CollectPayouts(aggregatedSales, calculators) ==
    IF aggregatedSales = <<>> THEN <<>>
    ELSE LET breakdown == SellerBreakdown(Head(aggregatedSales).categories, calculators)
             totalBonus == SumBreakdown(breakdown, Zero)
             rest == CollectPayouts(Tail(aggregatedSales), calculators)
         IN  IF RatPositive(totalBonus)
             THEN <<[seller |-> Head(aggregatedSales).seller,
                     totalBonus |-> totalBonus,
                     breakdown |-> breakdown]>> \o rest
             ELSE rest

\* mutant: an unstable sort, a payout placed ahead of those it ties with
RECURSIVE InsertByTotalBonusAheadOfTies(_, _)
InsertByTotalBonusAheadOfTies(sorted, p) ==
    IF sorted = <<>> THEN <<p>>
    ELSE IF RatLess(p.totalBonus, Head(sorted).totalBonus)
         THEN <<Head(sorted)>> \o InsertByTotalBonusAheadOfTies(Tail(sorted), p)
         ELSE <<p>> \o sorted

\* payouts.sort((a, b) => b.totalBonus - a.totalBonus): stable, descending
RECURSIVE InsertByTotalBonus(_, _)
InsertByTotalBonus(sorted, p) ==
    IF sorted = <<>> THEN <<p>>
    ELSE IF ~RatLess(Head(sorted).totalBonus, p.totalBonus)
         THEN <<Head(sorted)>> \o InsertByTotalBonus(Tail(sorted), p)
         ELSE <<p>> \o sorted

RECURSIVE SortByTotalBonus(_)
SortByTotalBonus(payouts) ==
    IF payouts = <<>> THEN <<>>
    ELSE InsertByTotalBonus(SortByTotalBonus(SubSeq(payouts, 1, Len(payouts) - 1)),
                            payouts[Len(payouts)])

calculateBonuses(aggregatedSales, calculators) ==
    SortByTotalBonus(CollectPayouts(aggregatedSales, calculators))

(***************************************************************************)
(* Inputs of the payout checks.                                            *)
(***************************************************************************)
MaxSellers == 2

Sellers == {"p" \o ToString(i) : i \in 1..MaxSellers}
CategoryNames == {"steak", "cocktail"}

Unpaid == [productName |-> "Ribeye", quantity |-> 1, revenue |-> 150,
           tier |-> Null, products |-> <<>>]
PaidLow == [productName |-> "Ribeye", quantity |-> 2, revenue |-> 150,
            tier |-> [minQuantity |-> 2, bonusPercentage |-> 5], products |-> <<>>]
PaidHigh == [productName |-> "Wagyu", quantity |-> 5, revenue |-> 150,
             tier |-> [minQuantity |-> 5, bonusPercentage |-> 10], products |-> <<>>]

PayoutSalesData ==
    {[isArray |-> TRUE, items |-> items] :
        items \in {<<Unpaid>>, <<PaidLow>>, <<Unpaid, PaidHigh>>}}

\* sequences without repetition over S: the keys of an object occur once
DistinctSeqs(S) ==
    {q \in SeqsUpTo(S, Cardinality(S)) : \A i, j \in 1..Len(q) : q[i] = q[j] => i = j}

CategoryEntries ==
    UNION {{[i \in 1..Len(names) |-> [category |-> names[i], salesData |-> data[i]]] :
                data \in [1..Len(names) -> PayoutSalesData]} :
           names \in DistinctSeqs(CategoryNames)}

AggregatedSalesInputs ==
    UNION {{[i \in 1..Len(names) |-> [seller |-> names[i], categories |-> cats[i]]] :
                cats \in [1..Len(names) -> CategoryEntries]} :
           names \in DistinctSeqs(Sellers)}

InitPayouts ==
    /\ IdleDb
    /\ result = Null
    /\ op = Calling("calculateBonuses")
    /\ input \in [aggregatedSales : AggregatedSalesInputs,
                  calculators : {CategoryNames, {"steak"}}]

Payouts ==
    /\ op = Calling("calculateBonuses")
    /\ op' = Returned("calculateBonuses")
    /\ result' = calculateBonuses(input.aggregatedSales, input.calculators)
    /\ UNCHANGED <<forecast, categories, receipts, input, tokens, pending>>

NextPayouts == Payouts

SpecPayouts == InitPayouts /\ [][NextPayouts]_vars

\* number of sales facts / of line items over a sequence of category entries
RECURSIVE CountFacts(_)
CountFacts(entries) ==
    IF entries = <<>> THEN 0
    ELSE Len(Head(entries).salesData.items) + CountFacts(Tail(entries))

RECURSIVE CountItems(_)
CountItems(breakdown) ==
    IF breakdown = <<>> THEN 0
    ELSE Len(Head(breakdown).items) + CountItems(Tail(breakdown))

\* the line items reported for a seller: those of its payout, none without a payout
ItemsReportedFor(seller, payouts) ==
    IF \E i \in 1..Len(payouts) : payouts[i].seller = seller
    THEN CountItems(payouts[CHOOSE i \in 1..Len(payouts) : payouts[i].seller = seller].breakdown)
    ELSE 0

\* C7 as stated: calculateBonus emits one line item per sales fact, in input
\* order, qualified or not, so that every participant's line items over all
\* category breakdowns number as many as the sales facts produced for them.
C7Original ==
    op = Returned("calculateBonuses") =>
        \A e \in Range(input.aggregatedSales) :
            /\ \A c \in Range(e.categories) :
                LET scored == calculateBonus(c.salesData) IN
                /\ Len(scored.items) = Len(c.salesData.items)
                /\ \A i \in 1..Len(scored.items) :
                    /\ scored.items[i].productName = c.salesData.items[i].productName
                    /\ scored.items[i].quantity = c.salesData.items[i].quantity
                    /\ scored.items[i].revenue = c.salesData.items[i].revenue
            /\ (\A c \in Range(e.categories) : c.category \in input.calculators) =>
                ItemsReportedFor(e.seller, result) = CountFacts(e.categories)

(***************************************************************************)
(* services/utils.js: formatDataForCalculation                             *)
(* A receipt is [participantId, product |-> [name, category |-> [name]],   *)
(* price].  The value returned is [isArray, items]: the single object of   *)
(* the 'PER CATEGORY' branch is isArray = FALSE with that object as its    *)
(* one item.                                                               *)
(***************************************************************************)
\* The property names of `this` inside the arrow functions of utils.js: the
\* module-scope `this`, which is the initial exports object.  Line 34 rebinds
\* module.exports to a new object and nothing is ever assigned to the old one.
ThisProperties == {}

\* this.getApplicableTier(quantity, tiers)
ThisGetApplicableTier(quantity, tiers) ==
    IF "getApplicableTier" \in ThisProperties
    THEN Ok(getApplicableTier(quantity, tiers))
    ELSE Throw("TypeError: this.getApplicableTier is not a function")

\* receipts.reduce((sum, r) => sum + r.price, 0)
RECURSIVE SumPrices(_)
SumPrices(rs) ==
    IF rs = <<>> THEN 0 ELSE Head(rs).price + SumPrices(Tail(rs))

\* the loop filling salesMap, as the entries [name, quantity, revenue] in
\* insertion order (Object.values order for names that are not array indices)
RECURSIVE FillSalesMap(_, _)
FillSalesMap(rs, salesMap) ==
    IF rs = <<>> THEN salesMap
    ELSE LET name == Head(rs).product.name
             known == \E i \in 1..Len(salesMap) : salesMap[i].name = name
             started == IF known THEN salesMap
                        ELSE Append(salesMap, [name |-> name, quantity |-> 0, revenue |-> 0])
         IN  FillSalesMap(
                Tail(rs),
                [i \in 1..Len(started) |->
                    IF started[i].name = name
                    THEN [name |-> name,
                          quantity |-> started[i].quantity + 1,
                          revenue |-> started[i].revenue + Head(rs).price]
                    ELSE started[i]])

formatDataForCalculation(rs, mode, tiers) ==
    IF mode = "PER CATEGORY"
    THEN LET tier == ThisGetApplicableTier(Len(rs), tiers) IN
         IF tier.threw THEN tier
         ELSE Ok([isArray |-> FALSE,
                  items |-> <<[quantity |-> Len(rs),
                               revenue |-> SumPrices(rs),
                               tier |-> tier.value]>>])
    ELSE IF mode = "PER ITEM"
    THEN LET salesMap == FillSalesMap(rs, <<>>) IN
         IF \E i \in 1..Len(salesMap) :
                ThisGetApplicableTier(salesMap[i].quantity, tiers).threw
         THEN Throw("TypeError: this.getApplicableTier is not a function")
         ELSE Ok([isArray |-> TRUE,
                  items |-> [i \in 1..Len(salesMap) |->
                                [quantity |-> salesMap[i].quantity,
                                 revenue |-> salesMap[i].revenue,
                                 tier |-> ThisGetApplicableTier(
                                              salesMap[i].quantity, tiers).value]]])
    ELSE Ok([isArray |-> TRUE, items |-> <<>>])

(***************************************************************************)
(* categories/validators.js: the modes a category can be configured with   *)
(***************************************************************************)
validModes == {"PER_ITEM", "PER_CATEGORY"}

(***************************************************************************)
(* Inputs of the aggregation checks.                                       *)
(***************************************************************************)
MaxReceipts == 4

Modes == validModes \cup {"PER ITEM", "PER CATEGORY", "UNKNOWN_MODE"}

SteakReceipts ==
    [participantId : {"p1"},
     product : [name : {"Ribeye", "Wagyu"}, category : [name : {"steak"}]],
     price : {10, 25}]

FormatTierLists ==
    {<<>>,
     <<[minQuantity |-> 3, bonusPercentage |-> 10]>>,
     <<[minQuantity |-> 3, bonusPercentage |-> 10], [minQuantity |-> 1, bonusPercentage |-> 5]>>}

InitFormat ==
    /\ IdleDb
    /\ result = Null
    /\ op = Calling("formatDataForCalculation")
    /\ input \in [receipts : SeqsUpTo(SteakReceipts, MaxReceipts),
                  mode : Modes,
                  tiers : FormatTierLists]

Format ==
    /\ op = Calling("formatDataForCalculation")
    /\ op' = Returned("formatDataForCalculation")
    /\ result' = formatDataForCalculation(input.receipts, input.mode, input.tiers)
    /\ UNCHANGED <<forecast, categories, receipts, input, tokens, pending>>

NextFormat == Format

SpecFormat == InitFormat /\ [][NextFormat]_vars

\* the receipts of rs that sold product `name`
ReceiptsOf(rs, name) == SelectSeq(rs, LAMBDA r : r.product.name = name)

\* C9 as stated: for a category configured PER_CATEGORY and a non-empty receipt
\* list, formatDataForCalculation produces exactly one sales fact with
\* quantity = number of receipts, revenue = sum of prices and
\* matchedTier = resolve(quantity).
C9Original ==
    (/\ op = Returned("formatDataForCalculation")
     /\ input.mode = "PER_CATEGORY"
     /\ input.receipts # <<>>) =>
        /\ ~result.threw
        /\ Len(result.value.items) = 1
        /\ result.value.items[1].quantity = Len(input.receipts)
        /\ result.value.items[1].revenue = SumPrices(input.receipts)
        /\ result.value.items[1].tier
             = getApplicableTier(Len(input.receipts), input.tiers)

\* C10 as stated: for a category configured PER_ITEM, formatDataForCalculation
\* produces one sales fact per distinct product name, whose quantity and revenue
\* count that product's receipts only and whose matchedTier = resolve(that
\* quantity); quantities are never combined across products.
C10Original ==
    (/\ op = Returned("formatDataForCalculation")
     /\ input.mode = "PER_ITEM") =>
        LET names == {r.product.name : r \in Range(input.receipts)} IN
        /\ ~result.threw
        /\ Len(result.value.items) = Cardinality(names)
        /\ \A name \in names :
            \E i \in 1..Len(result.value.items) :
                LET own == ReceiptsOf(input.receipts, name) IN
                /\ result.value.items[i].quantity = Len(own)
                /\ result.value.items[i].revenue = SumPrices(own)
                /\ result.value.items[i].tier = getApplicableTier(Len(own), input.tiers)

(***************************************************************************)
(* domain/ForecastChecker.js                                               *)
(***************************************************************************)
\* requiredRevenue = monthlyForecast * (thresholdPercent / 100);
\* totalRevenue >= requiredRevenue.  thresholdPercent is a rational.
isForecastMet(thresholdPercent, monthlyForecast, totalRevenue) ==
    ~RatLess(Rat(totalRevenue, 1),
             Rat(monthlyForecast * thresholdPercent.num, thresholdPercent.den * 100))

(***************************************************************************)
(* services/bonusService.js: BonusService.calculateAllBonuses              *)
(***************************************************************************)
Participants == {"p1", "p2"}
ParticipantName(pid) == IF pid = "p1" THEN "Alice Smith" ELSE "Bob Jones"

\* lines 93-105: receipts grouped by participant, then by category name, both
\* in order of first occurrence
RECURSIVE GroupReceipts(_, _)
GroupReceipts(rs, grouped) ==
    IF rs = <<>> THEN grouped
    ELSE LET r == Head(rs)
             pid == r.participantId
             categoryName == r.product.category.name
             withPid == IF \E i \in 1..Len(grouped) : grouped[i].pid = pid
                        THEN grouped
                        ELSE Append(grouped, [pid |-> pid, categories |-> <<>>])
             AddTo(cats) ==
                LET withCat == IF \E j \in 1..Len(cats) : cats[j].categoryName = categoryName
                               THEN cats
                               ELSE Append(cats, [categoryName |-> categoryName,
                                                  receipts |-> <<>>])
                IN  [j \in 1..Len(withCat) |->
                        IF withCat[j].categoryName = categoryName
                        THEN [withCat[j] EXCEPT !.receipts = Append(@, r)]
                        ELSE withCat[j]]
         IN  GroupReceipts(
                Tail(rs),
                [i \in 1..Len(withPid) |->
                    IF withPid[i].pid = pid
                    THEN [withPid[i] EXCEPT !.categories = AddTo(@)]
                    ELSE withPid[i]])

\* categories.find(c => c.name === categoryName)
FindCategory(cats, categoryName) ==
    IF \E i \in 1..Len(cats) : cats[i].name = categoryName
    THEN cats[CHOOSE i \in 1..Len(cats) :
                /\ cats[i].name = categoryName
                /\ \A j \in 1..(i - 1) : cats[j].name # categoryName]
    ELSE Null

\* lines 111-120 for one participant: [threw, value]; value the entries
\* [category, salesData] of aggregatedSales[pid]
RECURSIVE FormatCategories(_, _)
FormatCategories(grouped, cats) ==
    IF grouped = <<>> THEN Ok(<<>>)
    ELSE LET category == FindCategory(cats, Head(grouped).categoryName)
             rest == FormatCategories(Tail(grouped), cats)
         IN  IF category = Null THEN rest
             ELSE LET salesData == formatDataForCalculation(
                                       Head(grouped).receipts, category.mode,
                                       category.tierRules)
                  IN  IF salesData.threw THEN salesData
                      ELSE IF rest.threw THEN rest
                      ELSE Ok(<<[category |-> Head(grouped).categoryName,
                                 \* Array.isArray(salesData) ? salesData : [salesData]
                                 salesData |-> [isArray |-> TRUE,
                                                items |-> salesData.value.items]]>>
                              \o rest.value)

\* lines 108-121: aggregatedSales, or the exception formatDataForCalculation threw
RECURSIVE FormatParticipants(_, _)
FormatParticipants(grouped, cats) ==
    IF grouped = <<>> THEN Ok(<<>>)
    ELSE LET own == FormatCategories(Head(grouped).categories, cats)
             rest == FormatParticipants(Tail(grouped), cats)
         IN  IF own.threw THEN own
             ELSE IF rest.threw THEN rest
             ELSE Ok(<<[seller |-> Head(grouped).pid, categories |-> own.value]>>
                     \o rest.value)

\* mutant: the computed bonus paid out whatever the forecast gate said
PayableAmountUngated(forecastMet, totalBonus) == totalBonus

\* amount: forecastMet ? payout.totalBonus : 0
PayableAmount(forecastMet, totalBonus) == IF forecastMet THEN totalBonus ELSE Zero

\* payouts.sort((a, b) => b.potentialBonus - a.potentialBonus): stable, descending
RECURSIVE InsertByPotentialBonus(_, _)
InsertByPotentialBonus(sorted, p) ==
    IF sorted = <<>> THEN <<p>>
    ELSE IF ~RatLess(Head(sorted).potentialBonus, p.potentialBonus)
         THEN <<Head(sorted)>> \o InsertByPotentialBonus(Tail(sorted), p)
         ELSE <<p>> \o sorted

RECURSIVE SortByPotentialBonus(_)
SortByPotentialBonus(payouts) ==
    IF payouts = <<>> THEN <<>>
    ELSE InsertByPotentialBonus(
            SortByPotentialBonus(SubSeq(payouts, 1, Len(payouts) - 1)),
            payouts[Len(payouts)])

\* lines 123-147: the payouts scored, mapped to the service format and sorted.
\* dataCompleteness (calendar arithmetic on the receipt dates) is left out.
PayoutReport(aggregatedSales, calculators, forecastMet, revenues) ==
    LET payoutsArray == calculateBonuses(aggregatedSales, calculators)
        payouts == [i \in 1..Len(payoutsArray) |->
                      [participant |-> [id |-> payoutsArray[i].seller,
                                        name |-> ParticipantName(payoutsArray[i].seller)],
                       amount |-> PayableAmount(forecastMet, payoutsArray[i].totalBonus),
                       breakdown |-> payoutsArray[i].breakdown,
                       potentialBonus |-> payoutsArray[i].totalBonus]]
    IN  [forecastMet |-> forecastMet,
         revenues |-> revenues,
         payouts |-> SortByPotentialBonus(payouts)]

\* categories.filter(category => category.tierRules.length === 0)
\*           .map(category => category.name)
CategoriesWithoutRules(cats) ==
    LET without == SelectSeq(cats, LAMBDA c : Len(c.tierRules) = 0) IN
    [i \in 1..Len(without) |-> without[i].name]

\* The whole method.  body is the request body {month, year, totalRevenue};
\* fc, rs, cats are what the three prisma queries return.  The value is
\* [threw, value, did]: did lists the stages the call went through.
calculateAllBonuses(body, fc, rs, cats) ==
    IF "totalRevenue" \notin DOMAIN body \/ body.totalRevenue = 0 \/ body.totalRevenue < 0
    THEN [threw |-> TRUE, value |-> "No total revenue provided", did |-> <<>>]
    ELSE IF fc = Null
    THEN [threw |-> TRUE, value |-> "Forecast not found", did |-> <<"forecast">>]
    ELSE
    LET forecastMet == isForecastMet(fc.threshold, fc.targetAmount, body.totalRevenue) IN
    IF Len(rs) = 0
    THEN [threw |-> FALSE,
          value |-> [message |-> "No sales found for this period.", payouts |-> <<>>],
          did |-> <<"forecast", "gate", "receipts">>]
    ELSE IF \E i \in 1..Len(cats) : Len(cats[i].tierRules) = 0
    THEN [threw |-> TRUE,
          value |-> "Cannot calculate bonuses: The following categories have no tier rules configured",
          categoryNames |-> CategoriesWithoutRules(cats),
          did |-> <<"forecast", "gate", "receipts", "categories">>]
    ELSE
    LET aggregatedSales == FormatParticipants(GroupReceipts(rs, <<>>), cats) IN
    IF aggregatedSales.threw
    THEN [threw |-> TRUE, value |-> aggregatedSales.value,
          did |-> <<"forecast", "gate", "receipts", "categories", "grouping",
                    "aggregation">>]
    ELSE [threw |-> FALSE,
          value |-> PayoutReport(aggregatedSales.value,
                                 {cats[i].name : i \in 1..Len(cats)},
                                 forecastMet,
                                 [total |-> body.totalRevenue,
                                  bonusEligible |-> SumPrices(rs),
                                  target |-> fc.targetAmount]),
          did |-> <<"forecast", "gate", "receipts", "categories", "grouping",
                    "aggregation", "scoring">>]

(***************************************************************************)
(* bonus/validators.js and bonus/routes.js: POST /api/bonuses/calculate    *)
(***************************************************************************)
\* mutant: the validator without its range check on totalRevenue
validateBonusCalculationUnranged(body) ==
    IF "totalRevenue" \notin DOMAIN body THEN {"totalRevenue is required"} ELSE {}

\* the errors validateBonusCalculation reports for a body whose month and year
\* are valid; totalRevenue, when present, is an integer
validateBonusCalculation(body) ==
    IF "totalRevenue" \notin DOMAIN body THEN {"totalRevenue is required"}
    ELSE IF body.totalRevenue < 0 THEN {"totalRevenue must be non-negative"}
    ELSE {}

\* the handler: the response status and what the service returned or threw
PostCalculateResponse(body, fc, rs, cats) ==
    IF validateBonusCalculation(body) # {}
    THEN [status |-> 400, details |-> validateBonusCalculation(body)]
    ELSE LET service == calculateAllBonuses(body, fc, rs, cats) IN
         IF ~service.threw THEN [status |-> 200, service |-> service]
         ELSE IF service.value = "Forecast not found"
              THEN [status |-> 404, service |-> service]
              ELSE [status |-> 500, service |-> service]

(***************************************************************************)
(* forecasts/validators.js and forecasts/routes.js: POST /api/forecasts    *)
(***************************************************************************)
\* the errors validateForecast reports for a body whose month and year are
\* valid; threshold is a rational
validateForecast(body) ==
    (IF body.targetAmount <= 0
     THEN {"targetAmount must be a positive number"} ELSE {})
    \cup
    (IF RatLess(body.threshold, Zero) \/ RatLess(Rat(1, 1), body.threshold)
     THEN {"threshold must be a decimal between 0 and 1 (e.g., 0.9 for 90%)"}
     ELSE {})

(***************************************************************************)
(* categories validator and POST /api/categories                           *)
(***************************************************************************)
\* [...tierRules].sort by minQuantity, then the first adjacent pair whose bonus
\* does not strictly increase
BonusNotIncreasing(tierRules) ==
    LET sorted == SortByMinQuantity(tierRules) IN
    \E i \in 2..Len(sorted) : sorted[i].bonusPercentage <= sorted[i - 1].bonusPercentage

\* the kinds of error validateCategory reports; tierRules, when present, is an
\* array of tiers with integer fields
validateCategory(body) ==
    (IF body.name = "" THEN {"name is required and must be a non-empty string"} ELSE {})
    \cup
    (IF body.mode \notin validModes
     THEN {"mode must be one of: PER_ITEM, PER_CATEGORY"} ELSE {})
    \cup
    (IF "tierRules" \notin DOMAIN body THEN {}
     ELSE IF Len(body.tierRules) = 0 THEN {"tierRules must contain at least one tier"}
     ELSE LET t == body.tierRules IN
          (IF \E i \in 1..Len(t) : t[i].minQuantity < 0
           THEN {"minQuantity must be a non-negative integer"} ELSE {})
          \cup
          (IF \E i \in 1..Len(t) : t[i].bonusPercentage < 1 \/ t[i].bonusPercentage > 100
           THEN {"bonusPercentage must be between 1 and 100"} ELSE {})
          \cup
          (IF \E i, j \in 1..Len(t) : i # j /\ t[i].minQuantity = t[j].minQuantity
           THEN {"tierRules cannot have duplicate minQuantity values"} ELSE {})
          \cup
          (IF \E i, j \in 1..Len(t) : i # j /\ t[i].bonusPercentage = t[j].bonusPercentage
           THEN {"tierRules cannot have duplicate bonusPercentage values"} ELSE {})
          \cup
          (IF BonusNotIncreasing(t) THEN {"Bonus must strictly increase"} ELSE {}))

(***************************************************************************)
(* The database of one bonus period and the requests made against it.      *)
(***************************************************************************)
\* the product catalogue: each product's category
ProductCategory == [Ribeye |-> "steak", Martini |-> "cocktail"]

ProductNames == DOMAIN ProductCategory

\* receipt.findMany with include product.category
ReceiptsQuery(rs) ==
    [i \in 1..Len(rs) |->
        [participantId |-> rs[i].participantId,
         product |-> [name |-> rs[i].productName,
                      category |-> [name |-> ProductCategory[rs[i].productName]]],
         price |-> rs[i].price]]

MaxDbReceipts == 2

SteakTiers == <<[minQuantity |-> 1, bonusPercentage |-> 10]>>

CategoryBodies ==
    [name : CategoryNames, mode : validModes \cup {"PER ITEM"}]
    \cup [name : CategoryNames, mode : validModes, tierRules : {<<>>, SteakTiers}]

ForecastBodies ==
    [targetAmount : {0, 50000}, threshold : {Zero, Rat(9, 10), Rat(3, 2)}]

CsvRows ==
    [sellerName : {ParticipantName(p) : p \in Participants} \cup {"Carol Nobody"},
     itemName : ProductNames,
     price : {100}]

CalculateBodies ==
    {[month |-> 1, year |-> 2025]}
    \cup [month : {1}, year : {2025}, totalRevenue : {-1, 0, 1, 44999, 45000}]

Init ==
    /\ forecast = Null
    /\ categories = <<>>
    /\ receipts = <<>>
    /\ op = <<"idle", "init">>
    /\ input = Null
    /\ result = Null
    /\ tokens = Null
    /\ pending = <<>>

\* the ids of the tier rules on file
TierIds(cats) ==
    UNION {{cats[i].tierRules[k].id : k \in 1..Len(cats[i].tierRules)} : i \in 1..Len(cats)}

\* the id the database gives a new row: one no row on file has
NewId(used) ==
    CHOOSE i \in 1..(Cardinality(used) + 1) :
        i \notin used /\ \A j \in 1..(i - 1) : j \in used

\* tierRules: { create: tierRules }: the rows created, in the order given
RECURSIVE CreatedTierRules(_, _)
CreatedTierRules(tierRules, used) ==
    IF tierRules = <<>> THEN <<>>
    ELSE <<[id |-> NewId(used),
            minQuantity |-> Head(tierRules).minQuantity,
            bonusPercentage |-> Head(tierRules).bonusPercentage]>>
         \o CreatedTierRules(Tail(tierRules), used \cup {NewId(used)})

CreateCategory ==
    \E body \in CategoryBodies :
        /\ op' = Returned("createCategory")
        /\ input' = body
        /\ IF validateCategory(body) # {}
           THEN /\ result' = [status |-> 400, details |-> validateCategory(body)]
                /\ UNCHANGED categories
           ELSE IF \E i \in 1..Len(categories) : categories[i].name = body.name
           THEN /\ result' = [status |-> 409]
                /\ UNCHANGED categories
           ELSE /\ result' = [status |-> 201]
                /\ categories' = Append(categories,
                                   [name |-> body.name,
                                    mode |-> body.mode,
                                    tierRules |-> IF "tierRules" \in DOMAIN body
                                                  THEN CreatedTierRules(body.tierRules,
                                                                        TierIds(categories))
                                                  ELSE <<>>])
        /\ UNCHANGED <<forecast, receipts, tokens, pending>>

CreateForecast ==
    \E body \in ForecastBodies :
        /\ op' = Returned("createForecast")
        /\ input' = body
        /\ IF validateForecast(body) # {}
           THEN /\ result' = [status |-> 400, details |-> validateForecast(body)]
                /\ UNCHANGED forecast
           ELSE IF forecast # Null
           THEN /\ result' = [status |-> 409]
                /\ UNCHANGED forecast
           ELSE /\ result' = [status |-> 201]
                /\ forecast' = body
        /\ UNCHANGED <<categories, receipts, tokens, pending>>

\* ParsingService.uploadReceipts for a file of one valid row
UploadReceipts ==
    \E row \in CsvRows :
        /\ Len(receipts) < MaxDbReceipts
        /\ op' = Returned("uploadReceipts")
        /\ input' = row
        /\ IF \A p \in Participants : ParticipantName(p) # row.sellerName
           THEN /\ result' = [processed |-> 0, errors |-> <<"Unknown seller">>]
                /\ UNCHANGED receipts
           ELSE IF \A i \in 1..Len(categories) :
                      categories[i].name # ProductCategory[row.itemName]
           THEN /\ result' = [processed |-> 0, errors |-> <<"Unknown Product">>]
                /\ UNCHANGED receipts
           ELSE /\ result' = [processed |-> 1, errors |-> <<>>]
                /\ receipts' = Append(receipts,
                                 [participantId |->
                                     CHOOSE p \in Participants :
                                         ParticipantName(p) = row.sellerName,
                                  productName |-> row.itemName,
                                  price |-> row.price])
        /\ UNCHANGED <<forecast, categories, tokens, pending>>

PostCalculate ==
    \E body \in CalculateBodies :
        /\ op' = Returned("calculateAllBonuses")
        /\ input' = body
        /\ result' = PostCalculateResponse(body, forecast, ReceiptsQuery(receipts),
                                           categories)
        /\ UNCHANGED <<forecast, categories, receipts, tokens, pending>>

Next ==
    \/ CreateCategory
    \/ CreateForecast
    \/ UploadReceipts
    \/ PostCalculate

Spec == Init /\ [][Next]_vars

\* the call reached the service with a positive totalRevenue and a forecast on file
GateEvaluated ==
    /\ op = Returned("calculateAllBonuses")
    /\ "service" \in DOMAIN result
    /\ "gate" \in Range(result.service.did)

\* the gate of the specification: totalRevenue >= targetAmount * threshold
SpecGateMet ==
    ~RatLess(Rat(input.totalRevenue, 1),
             Rat(forecast.targetAmount * forecast.threshold.num, forecast.threshold.den))

\* C1 as stated: when the forecast gate is not met, calculate returns
\* {forecastMet: false, payouts: []} and performs no grouping, aggregation or
\* scoring.
C1Original ==
    (GateEvaluated
     /\ ~isForecastMet(forecast.threshold, forecast.targetAmount, input.totalRevenue)) =>
        /\ ~result.service.threw
        /\ "forecastMet" \in DOMAIN result.service.value
        /\ result.service.value.forecastMet = FALSE
        /\ result.service.value.payouts = <<>>
        /\ Range(result.service.did) \cap {"grouping", "aggregation", "scoring"} = {}

\* C2 as stated: every report carries forecastMet = TRUE exactly when
\* totalRevenue >= targetAmount * threshold, threshold a fraction in [0, 1].
C2Original ==
    (GateEvaluated
     /\ ~result.service.threw
     /\ "forecastMet" \in DOMAIN result.service.value) =>
        (result.service.value.forecastMet <=> SpecGateMet)

(***************************************************************************)
(* The report step of calculateAllBonuses (lines 123-147) on its own: the  *)
(* aggregated sales of a period scored, gated and sorted.                  *)
(***************************************************************************)
ReportRevenues == [total : {44999}, bonusEligible : {300}, target : {50000}]

InitReport ==
    /\ IdleDb
    /\ result = Null
    /\ op = Calling("payoutReport")
    /\ input \in [aggregatedSales : AggregatedSalesInputs,
                  forecastMet : BOOLEAN,
                  revenues : ReportRevenues]

Report ==
    /\ op = Calling("payoutReport")
    /\ op' = Returned("payoutReport")
    /\ result' = PayoutReport(input.aggregatedSales, CategoryNames,
                              input.forecastMet, input.revenues)
    /\ UNCHANGED <<forecast, categories, receipts, input, tokens, pending>>

NextReport == Report

SpecReport == InitReport /\ [][NextReport]_vars

\* C3: in every report returned with forecastMet = FALSE, every participant's
\* payable amount is zero, whatever bonus their sales computed to.
C3BonusesLocked ==
    (op = Returned("payoutReport") /\ result.forecastMet = FALSE) =>
        \A i \in 1..Len(result.payouts) : result.payouts[i].amount = Zero

\* a report with the forecast not met that lists a participant whose sales earned
\* a bonus, the payable amount zero
C3Witness ==
    /\ op = Returned("payoutReport")
    /\ result.forecastMet = FALSE
    /\ \E i \in 1..Len(result.payouts) :
          /\ RatPositive(result.payouts[i].potentialBonus)
          /\ result.payouts[i].amount = Zero

(***************************************************************************)
(* Unknown aggregation modes.                                              *)
(***************************************************************************)
\* the modes formatDataForCalculation has a branch for, and those a category
\* can be configured with
SupportedModes == validModes \cup {"PER ITEM", "PER CATEGORY"}

\* C11 as stated: formatDataForCalculation called with a mode that is neither
\* of the supported modes fails with a ConfigurationError; it never returns an
\* empty result for such a mode.
C11Original ==
    (op = Returned("formatDataForCalculation") /\ input.mode \notin SupportedModes) =>
        /\ result.threw
        /\ result.value = "ConfigurationError"

(***************************************************************************)
(* The configuration guard of calculateAllBonuses.                         *)
(***************************************************************************)
\* the service was called with a positive totalRevenue and found the forecast
ForecastFound ==
    /\ op = Returned("calculateAllBonuses")
    /\ "service" \in DOMAIN result
    /\ "forecast" \in Range(result.service.did)
    /\ forecast # Null

ZeroTierCategories ==
    {categories[i].name : i \in {j \in 1..Len(categories) : Len(categories[j].tierRules) = 0}}

\* C12 as stated: with a valid totalRevenue and an existing forecast, if some
\* category has zero tiers then the calculation fails with an error naming
\* every zero-tier category, whatever the receipts are, before the forecast
\* gate or any grouping is evaluated.
C12Original ==
    (ForecastFound /\ ZeroTierCategories # {}) =>
        /\ result.service.threw
        /\ "categoryNames" \in DOMAIN result.service
        /\ Range(result.service.categoryNames) = ZeroTierCategories
        /\ Range(result.service.did) \cap {"gate", "grouping"} = {}

(***************************************************************************)
(* Who and what calculateBonuses reports.                                  *)
(***************************************************************************)
\* the categories of an aggregatedSales entry that have a calculator
ScoredCategories(e, calculators) ==
    {c.category : c \in {x \in Range(e.categories) : x.category \in calculators}}

\* C13 as stated: every participant with sales in the period appears in
\* payouts, and every category in which they sold appears in their breakdown,
\* even when the corresponding bonus is 0.
C13Original ==
    op = Returned("calculateBonuses") =>
        \A e \in Range(input.aggregatedSales) :
            ScoredCategories(e, input.calculators) # {} =>
                \E i \in 1..Len(result) :
                    /\ result[i].seller = e.seller
                    /\ ScoredCategories(e, input.calculators)
                         \subseteq {b.category : b \in Range(result[i].breakdown)}

\* the bonus fields of a breakdown added up
RECURSIVE SumBonusFields(_)
SumBonusFields(breakdown) ==
    IF breakdown = <<>> THEN Zero
    ELSE RatAdd(Head(breakdown).bonus, SumBonusFields(Tail(breakdown)))

\* C14: for every payout returned by calculateBonuses, totalBonus equals the
\* sum of the bonus fields of the participant's category breakdown entries.
C14ParticipantTotal ==
    op = Returned("calculateBonuses") =>
        \A i \in 1..Len(result) :
            result[i].totalBonus = SumBonusFields(result[i].breakdown)

\* a payout whose breakdown has two categories with different bonuses
C14Witness ==
    /\ op = Returned("calculateBonuses")
    /\ \E i \in 1..Len(result) :
          /\ Len(result[i].breakdown) = 2
          /\ result[i].breakdown[1].bonus # result[i].breakdown[2].bonus
          /\ result[i].totalBonus = RatAdd(result[i].breakdown[1].bonus,
                                           result[i].breakdown[2].bonus)

(***************************************************************************)
(* The order of the payouts.                                               *)
(***************************************************************************)
\* where a participant was first encountered in the aggregated sales
EncounterIndex(aggregatedSales, seller) ==
    CHOOSE i \in 1..Len(aggregatedSales) :
        /\ aggregatedSales[i].seller = seller
        /\ \A j \in 1..(i - 1) : aggregatedSales[j].seller # seller

\* bonuses[i], sellers[i] describe the i-th payout of a list
NonIncreasingAndStable(bonuses, sellers, aggregatedSales) ==
    \A i, j \in 1..Len(bonuses) :
        i < j =>
            /\ ~RatLess(bonuses[i], bonuses[j])
            /\ bonuses[i] = bonuses[j] =>
                  EncounterIndex(aggregatedSales, sellers[i])
                      < EncounterIndex(aggregatedSales, sellers[j])

\* C15: the returned payouts are non-increasing by totalBonus, and participants
\* with equal totalBonus keep the relative order in which they were first
\* encountered during grouping.
C15SortStability ==
    /\ op = Returned("payoutReport") =>
          NonIncreasingAndStable(
              [i \in 1..Len(result.payouts) |-> result.payouts[i].potentialBonus],
              [i \in 1..Len(result.payouts) |-> result.payouts[i].participant.id],
              input.aggregatedSales)
    /\ op = Returned("calculateBonuses") =>
          NonIncreasingAndStable(
              [i \in 1..Len(result) |-> result[i].totalBonus],
              [i \in 1..Len(result) |-> result[i].seller],
              input.aggregatedSales)

\* a report of two participants with equal bonuses, the one encountered first
\* (p2) listed first
C15Witness ==
    /\ op = Returned("payoutReport")
    /\ Len(result.payouts) = 2
    /\ result.payouts[1].potentialBonus = result.payouts[2].potentialBonus
    /\ result.payouts[1].participant.id = "p2"
    /\ input.aggregatedSales[1].seller = "p2"

\* a report of two participants the sort had to exchange
C15WitnessReordered ==
    /\ op = Returned("payoutReport")
    /\ Len(result.payouts) = 2
    /\ RatLess(result.payouts[2].potentialBonus, result.payouts[1].potentialBonus)
    /\ input.aggregatedSales[1].seller = result.payouts[2].participant.id

(***************************************************************************)
(* The failures and the empty results of POST /api/bonuses/calculate.      *)
(***************************************************************************)
\* a calculation request the validator let through
ValidRequestReturned ==
    /\ op = Returned("calculateAllBonuses")
    /\ validateBonusCalculation(input) = {}

\* C16 as stated: when no forecast is configured for the period, the
\* calculation fails with NotFound (HTTP 404) and returns no report.
C16Original ==
    (ValidRequestReturned /\ forecast = Null) =>
        /\ result.status = 404
        /\ result.service.threw
        /\ result.service.value = "Forecast not found"

\* what does hold: the same for every request with a positive totalRevenue
C16PositiveRevenue ==
    (ValidRequestReturned /\ forecast = Null /\ input.totalRevenue > 0) =>
        /\ result.status = 404
        /\ result.service.threw
        /\ result.service.value = "Forecast not found"

\* C17: a request whose totalRevenue is missing or negative is rejected as a
\* caller error (400) without the service being invoked, and the service
\* itself, called with such a totalRevenue, throws before it consults the
\* forecast or touches a receipt.
C17InvalidTotalRevenue ==
    (/\ op = Returned("calculateAllBonuses")
     /\ ("totalRevenue" \notin DOMAIN input \/ input.totalRevenue < 0)) =>
        /\ result.status = 400
        /\ result.details # {}
        /\ "service" \notin DOMAIN result
        /\ LET direct == calculateAllBonuses(input, forecast,
                                             ReceiptsQuery(receipts), categories)
           IN  direct.threw /\ direct.did = <<>>

\* a negative totalRevenue rejected although a forecast and receipts are on file
C17Witness ==
    /\ op = Returned("calculateAllBonuses")
    /\ "totalRevenue" \in DOMAIN input
    /\ input.totalRevenue < 0
    /\ forecast # Null
    /\ receipts # <<>>
    /\ result.status = 400

\* a request without totalRevenue rejected in the same way
C17WitnessMissing ==
    /\ op = Returned("calculateAllBonuses")
    /\ "totalRevenue" \notin DOMAIN input
    /\ forecast # Null
    /\ receipts # <<>>
    /\ result.status = 400

\* C18 as stated: when the period has no receipts and the request is otherwise
\* valid, the calculation succeeds with an empty payouts list and an explicit
\* no-sales indication, distinguishable from the forecast-not-met report.
C18Original ==
    (ValidRequestReturned /\ forecast # Null /\ receipts = <<>>) =>
        /\ result.status = 200
        /\ ~result.service.threw
        /\ result.service.value.payouts = <<>>
        /\ "message" \in DOMAIN result.service.value
        /\ "forecastMet" \notin DOMAIN result.service.value

\* what does hold: the same for every request with a positive totalRevenue
C18PositiveRevenue ==
    (ValidRequestReturned /\ forecast # Null /\ receipts = <<>>
     /\ input.totalRevenue > 0) =>
        /\ result.status = 200
        /\ ~result.service.threw
        /\ result.service.value.payouts = <<>>
        /\ "message" \in DOMAIN result.service.value
        /\ "forecastMet" \notin DOMAIN result.service.value

(***************************************************************************)
(* What the TierConfig constructor accepts.                                *)
(***************************************************************************)
TierConfigConstructed ==
    /\ op = Returned("TierConfig.getApplicableTier")
    /\ ~result.threw

\* a collection the construction contract rejects: empty, a negative
\* minQuantity, a percentage outside (0, 100], a shared minQuantity, a shared
\* percentage, or percentages not strictly increasing by minQuantity
TableMalformed(tiers) ==
    \/ tiers = <<>>
    \/ \E t \in Range(tiers) :
          \/ t.minQuantity < 0
          \/ ~RatPositive(t.percentage)
          \/ RatLess(Rat(100, 1), t.percentage)
    \/ \E i, j \in 1..Len(tiers) :
          /\ i # j
          /\ \/ tiers[i].minQuantity = tiers[j].minQuantity
             \/ tiers[i].percentage = tiers[j].percentage
    \/ \E i, j \in 1..Len(tiers) :
          /\ tiers[i].minQuantity < tiers[j].minQuantity
          /\ ~RatLess(tiers[i].percentage, tiers[j].percentage)

\* C19 as stated: constructing a tier table fails whenever the collection is
\* malformed; no such table is ever constructed successfully.
C19Original ==
    (op = Returned("TierConfig.getApplicableTier") /\ TableMalformed(input.tiers)) =>
        result.threw

\* a whole-number percentage: 1, 2, ..., 100
WholePercent(p) == p.den = 1 /\ p.num >= 1 /\ p.num <= 100

\* C20 as stated: a bonus percentage is a whole-number percent (10 means 10%)
\* everywhere; no validation path accepts the value as a 0-1 fraction.
C20Original ==
    TierConfigConstructed =>
        \A t \in Range(input.tiers) : WholePercent(t.percentage)

(***************************************************************************)
(* tier-rules/validators.js and tier-rules/routes.js                       *)
(* A stored tier rule is {id, minQuantity, bonusPercentage}; the rules of  *)
(* a category are kept with the category, in the order they were created.  *)
(***************************************************************************)
\* the errors validateTierRule and validateTierRuleUpdate report for a body
\* whose fields are integers (and whose categoryId is well-formed)
validateTierRule(body) ==
    (IF body.minQuantity < 0 THEN {"minQuantity must be >= 0"} ELSE {})
    \cup
    (IF body.bonusPercentage < 1 \/ body.bonusPercentage > 100
     THEN {"bonusPercentage must be between 1 and 100"} ELSE {})

\* mutant: the logic check without its comparison of neighbouring bonuses
validateTierRulesLogicUnordered(existingTiers, newTierRule) ==
    LET allTiers == Append(existingTiers, newTierRule) IN
    (IF \E i, j \in 1..Len(allTiers) :
            i # j /\ allTiers[i].minQuantity = allTiers[j].minQuantity
     THEN {"Duplicate minQuantity value"} ELSE {})
    \cup
    (IF \E i, j \in 1..Len(allTiers) :
            i # j /\ allTiers[i].bonusPercentage = allTiers[j].bonusPercentage
     THEN {"Duplicate bonusPercentage value"} ELSE {})

\* validateTierRulesLogic, given the rows its findMany returned
validateTierRulesLogic(existingTiers, newTierRule) ==
    LET allTiers == Append(existingTiers, newTierRule) IN
    (IF \E i, j \in 1..Len(allTiers) :
            i # j /\ allTiers[i].minQuantity = allTiers[j].minQuantity
     THEN {"Duplicate minQuantity value"} ELSE {})
    \cup
    (IF \E i, j \in 1..Len(allTiers) :
            i # j /\ allTiers[i].bonusPercentage = allTiers[j].bonusPercentage
     THEN {"Duplicate bonusPercentage value"} ELSE {})
    \cup
    (IF BonusNotIncreasing(allTiers) THEN {"Bonus must strictly increase"} ELSE {})

\* the position of the category called name, 0 when there is none
CategoryIndex(cats, name) ==
    IF \E i \in 1..Len(cats) : cats[i].name = name
    THEN CHOOSE i \in 1..Len(cats) : cats[i].name = name
    ELSE 0

\* the position of the category holding tier rule id, 0 when no row has the id
TierCategoryIndex(cats, id) ==
    IF \E i \in 1..Len(cats) : \E k \in 1..Len(cats[i].tierRules) :
            cats[i].tierRules[k].id = id
    THEN CHOOSE i \in 1..Len(cats) : \E k \in 1..Len(cats[i].tierRules) :
            cats[i].tierRules[k].id = id
    ELSE 0

\* tierRule.findMany({ where: { categoryId, id: { not: excludeTierId } } })
TiersExcluding(tierRules, excludeTierId) ==
    SelectSeq(tierRules, LAMBDA t : t.id # excludeTierId)

MaxTierId == 2

TierBodies ==
    [categoryId : CategoryNames, minQuantity : {-1, 1, 5}, bonusPercentage : {10, 20}]

TierUpdates ==
    [id : 1..MaxTierId, minQuantity : {1, 5}, bonusPercentage : {0, 10, 20}]

\* POST /api/tier-rules
CreateTierRule ==
    \E body \in TierBodies :
        LET c == CategoryIndex(categories, body.categoryId)
            tier == [minQuantity |-> body.minQuantity,
                     bonusPercentage |-> body.bonusPercentage]
        IN
        /\ op' = Returned("createTierRule")
        /\ input' = body
        /\ IF validateTierRule(body) # {}
           THEN /\ result' = [status |-> 400, details |-> validateTierRule(body)]
                /\ UNCHANGED categories
           ELSE IF c = 0
           THEN /\ result' = [status |-> 404]
                /\ UNCHANGED categories
           ELSE IF validateTierRulesLogic(categories[c].tierRules, tier) # {}
           THEN /\ result' = [status |-> 400,
                              details |-> validateTierRulesLogic(
                                              categories[c].tierRules, tier)]
                /\ UNCHANGED categories
           ELSE /\ Cardinality(TierIds(categories)) < MaxTierId
                /\ result' = [status |-> 201]
                /\ categories' =
                     [categories EXCEPT ![c].tierRules =
                        Append(@, [id |-> NewId(TierIds(categories)),
                                   minQuantity |-> body.minQuantity,
                                   bonusPercentage |-> body.bonusPercentage])]
        /\ UNCHANGED <<forecast, receipts, tokens, pending>>

\* PUT /api/tier-rules/:id
UpdateTierRule ==
    \E body \in TierUpdates :
        LET c == TierCategoryIndex(categories, body.id)
            tier == [minQuantity |-> body.minQuantity,
                     bonusPercentage |-> body.bonusPercentage]
        IN
        /\ op' = Returned("updateTierRule")
        /\ input' = body
        /\ IF validateTierRule(body) # {}
           THEN /\ result' = [status |-> 400, details |-> validateTierRule(body)]
                /\ UNCHANGED categories
           ELSE IF c = 0
           THEN /\ result' = [status |-> 404]
                /\ UNCHANGED categories
           ELSE IF validateTierRulesLogic(
                       TiersExcluding(categories[c].tierRules, body.id), tier) # {}
           THEN /\ result' = [status |-> 400,
                              details |-> validateTierRulesLogic(
                                  TiersExcluding(categories[c].tierRules, body.id), tier)]
                /\ UNCHANGED categories
           ELSE /\ result' = [status |-> 200]
                /\ categories' =
                     [categories EXCEPT ![c].tierRules =
                        [k \in 1..Len(@) |->
                            IF @[k].id = body.id
                            THEN [id |-> body.id,
                                  minQuantity |-> body.minQuantity,
                                  bonusPercentage |-> body.bonusPercentage]
                            ELSE @[k]]]
        /\ UNCHANGED <<forecast, receipts, tokens, pending>>

\* mutant: the delete handler without its count of the category's rules
DeleteAllowedAlways(tierCount) == TRUE

\* if (tierCount <= 1) return 409
DeleteAllowed(tierCount) == ~(tierCount <= 1)

\* DELETE /api/tier-rules/:id
DeleteTierRule ==
    \E id \in 1..MaxTierId :
        LET c == TierCategoryIndex(categories, id) IN
        /\ op' = Returned("deleteTierRule")
        /\ input' = [id |-> id]
        /\ IF c = 0
           THEN /\ result' = [status |-> 404]
                /\ UNCHANGED categories
           ELSE IF ~DeleteAllowed(Len(categories[c].tierRules))
           THEN /\ result' = [status |-> 409, error |-> "Cannot delete tier rule"]
                /\ UNCHANGED categories
           ELSE /\ result' = [status |-> 200]
                /\ categories' =
                     [categories EXCEPT ![c].tierRules = TiersExcluding(@, id)]
        /\ UNCHANGED <<forecast, receipts, tokens, pending>>

(***************************************************************************)
(* PUT and DELETE /api/categories/:id.  A category is addressed by its     *)
(* name; an update keeps the name.                                         *)
(***************************************************************************)
CategoryUpdates ==
    [name : CategoryNames, mode : validModes]
    \cup [name : CategoryNames, mode : validModes,
          tierRules : {<<>>,
                       <<[minQuantity |-> 5, bonusPercentage |-> 20],
                         [minQuantity |-> 1, bonusPercentage |-> 10]>>,
                       <<[minQuantity |-> 1, bonusPercentage |-> 20],
                         [minQuantity |-> 5, bonusPercentage |-> 10]>>}]

\* the categories left when the tier rules of category c are deleted
WithoutTierRules(cats, c) == [cats EXCEPT ![c].tierRules = <<>>]

UpdateCategory ==
    \E body \in CategoryUpdates :
        LET c == CategoryIndex(categories, body.name) IN
        /\ op' = Returned("updateCategory")
        /\ input' = body
        /\ IF validateCategory(body) # {}
           THEN /\ result' = [status |-> 400, details |-> validateCategory(body)]
                /\ UNCHANGED categories
           ELSE IF c = 0
           THEN /\ result' = [status |-> 404]
                /\ UNCHANGED categories
           ELSE /\ "tierRules" \in DOMAIN body =>
                      Cardinality(TierIds(WithoutTierRules(categories, c)))
                          + Len(body.tierRules) <= MaxTierId
                /\ result' = [status |-> 200]
                /\ categories' =
                     [categories EXCEPT ![c] =
                        [name |-> body.name,
                         mode |-> body.mode,
                         tierRules |->
                            IF "tierRules" \in DOMAIN body
                            THEN CreatedTierRules(
                                     body.tierRules,
                                     TierIds(WithoutTierRules(categories, c)))
                            ELSE <<>>]]
        /\ UNCHANGED <<forecast, receipts, tokens, pending>>

\* the products of a category, from the catalogue
ProductsOf(name) == {p \in ProductNames : ProductCategory[p] = name}

DeleteCategory ==
    \E name \in CategoryNames :
        LET c == CategoryIndex(categories, name) IN
        /\ op' = Returned("deleteCategory")
        /\ input' = [id |-> name]
        /\ IF c = 0
           THEN /\ result' = [status |-> 404]
                /\ UNCHANGED categories
           ELSE IF ProductsOf(name) # {}
           THEN /\ result' = [status |-> 409, error |-> "Cannot delete category"]
                /\ UNCHANGED categories
           ELSE /\ result' = [status |-> 200]
                /\ categories' = SelectSeq(categories, LAMBDA x : x.name # name)
        /\ UNCHANGED <<forecast, receipts, tokens, pending>>

(***************************************************************************)
(* The configuration API, one request at a time.                           *)
(***************************************************************************)
NextConfig ==
    \/ CreateCategory
    \/ UpdateCategory
    \/ DeleteCategory
    \/ CreateTierRule
    \/ UpdateTierRule
    \/ DeleteTierRule

SpecConfig == Init /\ [][NextConfig]_vars

\* the tier invariant on the rules stored for a category
StoredTiersValid(tierRules) ==
    /\ \A i, j \in 1..Len(tierRules) :
          i # j => /\ tierRules[i].minQuantity # tierRules[j].minQuantity
                   /\ tierRules[i].bonusPercentage # tierRules[j].bonusPercentage
    /\ \A i, j \in 1..Len(tierRules) :
          tierRules[i].minQuantity < tierRules[j].minQuantity
              => tierRules[i].bonusPercentage < tierRules[j].bonusPercentage

\* every category's stored tier rules satisfy the tier invariant
AllStoredTiersValid ==
    \A i \in 1..Len(categories) : StoredTiersValid(categories[i].tierRules)

\* the tier rules a category would hold once the request (kind, body) made
\* against cats was carried out; <<>> when the request stores no tier rules
AttemptedTiers(cats, kind, body) ==
    IF kind = "createTierRule" /\ CategoryIndex(cats, body.categoryId) # 0
    THEN Append(cats[CategoryIndex(cats, body.categoryId)].tierRules,
                [minQuantity |-> body.minQuantity,
                 bonusPercentage |-> body.bonusPercentage])
    ELSE IF kind = "updateTierRule" /\ TierCategoryIndex(cats, body.id) # 0
    THEN LET old == cats[TierCategoryIndex(cats, body.id)].tierRules IN
         [k \in 1..Len(old) |->
            IF old[k].id = body.id
            THEN [minQuantity |-> body.minQuantity,
                  bonusPercentage |-> body.bonusPercentage]
            ELSE [minQuantity |-> old[k].minQuantity,
                  bonusPercentage |-> old[k].bonusPercentage]]
    ELSE IF /\ kind \in {"createCategory", "updateCategory"}
            /\ "tierRules" \in DOMAIN body
    THEN body.tierRules
    ELSE <<>>

\* a step that answers a request which would break the tier invariant
BreakingRequestRejected ==
    ~StoredTiersValid(AttemptedTiers(categories, op'[2], input')) =>
        /\ result'.status = 400
        /\ categories' = categories

\* C21: after any sequence of configuration requests, each run to completion,
\* every category's stored tiers have pairwise distinct minQuantity, pairwise
\* distinct bonusPercentage and bonusPercentage strictly increasing with
\* minQuantity; a request that would break this is rejected with 400 and
\* changes nothing.
C21TierInvariant ==
    /\ []AllStoredTiersValid
    /\ [][BreakingRequestRejected]_vars

\* a tier rule refused only because its bonus would not increase with the
\* quantity, the category still holding the rule it had
C21Witness ==
    /\ op = Returned("createTierRule")
    /\ result.status = 400
    /\ result.details = {"Bonus must strictly increase"}
    /\ CategoryIndex(categories, input.categoryId) # 0
    /\ Len(categories[CategoryIndex(categories, input.categoryId)].tierRules) = 1

\* C22 as stated: in every state reachable through the category and tier-rule
\* APIs, requests run one at a time, every existing category has at least one
\* tier rule.
C22Original ==
    \A i \in 1..Len(categories) : Len(categories[i].tierRules) >= 1

\* a step deleting the tier rule that is the only one of its category
DeletesLastTier ==
    /\ op'[2] = "deleteTierRule"
    /\ TierCategoryIndex(categories, input'.id) # 0
    /\ Len(categories[TierCategoryIndex(categories, input'.id)].tierRules) = 1

\* C23: DELETE /api/tier-rules/:id on the only tier rule of its category is
\* rejected with 409 'Cannot delete tier rule' and the rule remains stored.
C23LastTierProtected ==
    [][DeletesLastTier =>
          /\ result'.status = 409
          /\ result'.error = "Cannot delete tier rule"
          /\ categories' = categories]_vars

\* the delete of a category's only tier rule refused, the rule still on file
C23Witness ==
    /\ op = Returned("deleteTierRule")
    /\ result.status = 409
    /\ TierCategoryIndex(categories, input.id) # 0
    /\ Len(categories[TierCategoryIndex(categories, input.id)].tierRules) = 1


(***************************************************************************)
(* C26: the request validator and the service on totalRevenue              *)
(***************************************************************************)
\* C26 as stated: every totalRevenue the validator accepts (zero included)
\* is accepted by calculateAllBonuses, so a request with totalRevenue = 0
\* for a period that has a forecast is answered with a report (200), never
\* with the service's "No total revenue provided".
C26Original ==
    (ValidRequestReturned /\ forecast # Null) =>
        /\ ~(result.service.threw /\ result.service.value = "No total revenue provided")
        /\ (input.totalRevenue = 0 => result.status = 200)


(***************************************************************************)
(* auth: utils/jwtUtils.js, utils/passwordUtils.js, tokenService.js,       *)
(* middleware authenticate, UserService.setPassword / login / logout       *)
(***************************************************************************)
\* the clock runs from 0 to MaxClock; a token lives TokenLifetime ticks
MaxClock == 2
TokenLifetime == 1
\* the handlers that may be between two awaits, or answered, at a time
MaxRequests == 2

\* crypto.randomUUID(): the n-th token of a table gets the n-th fresh id
AccessJtis == <<"a1", "a2">>
InviteJti == "i1"

\* a password is the sequence of its characters' classes
StrongPassword ==
    <<"upper", "lower", "lower", "lower", "lower", "lower", "digit", "digit">>
WeakPassword == <<"lower", "lower", "digit">>
Passwords == {StrongPassword, WeakPassword}

validatePasswordStrength(password) ==
    (IF Len(password) < 8
     THEN {"Password must be at least 8 characters long"} ELSE {})
    \cup
    (IF ~\E i \in 1..Len(password) : password[i] = "upper"
     THEN {"Password must contain at least one uppercase letter"} ELSE {})
    \cup
    (IF ~\E i \in 1..Len(password) : password[i] = "lower"
     THEN {"Password must contain at least one lowercase letter"} ELSE {})
    \cup
    (IF ~\E i \in 1..Len(password) : password[i] = "digit"
     THEN {"Password must contain at least one number"} ELSE {})

\* bcrypt.hash and bcrypt.compare
hashPassword(password) == [bcrypt |-> password]
verifyPassword(password, hash) == hash = [bcrypt |-> password]

\* jwt.sign({...payload, jti}, JWT_SECRET, {expiresIn}) at time now
createToken(type, jti, now) ==
    [type |-> type, jti |-> jti, exp |-> now + TokenLifetime, signed |-> TRUE]

\* a token that was not signed with JWT_SECRET
ForgedToken == [type |-> "access", jti |-> "a1", exp |-> MaxClock + TokenLifetime,
                signed |-> FALSE]

\* jwt.verify: the signature, then the exp claim
verifyToken(token, now) ==
    IF ~token.signed \/ now >= token.exp
    THEN Throw("Invalid or expired token")
    ELSE Ok(token)

\* prisma.<table>.findUnique({ where: { jti } }): the set of matching rows
FindUnique(rows, jti) == {r \in rows : r.jti = jti}

\* a token row; usedAt is the empty set while the column is null
TokenRow(jti, now) == [jti |-> jti, usedAt |-> {}, expiresAt |-> now + TokenLifetime]

\* mutant: verifyAccessToken without the usedAt test
verifyAccessTokenIgnoringUsedAt(rows, jti, now) ==
    IF FindUnique(rows, jti) = {} THEN Throw("Token not found")
    ELSE LET record == CHOOSE r \in FindUnique(rows, jti) : TRUE IN
         IF now > record.expiresAt THEN Throw("Token expired")
         ELSE Ok(record)

verifyAccessToken(rows, jti, now) ==
    IF FindUnique(rows, jti) = {} THEN Throw("Token not found")
    ELSE LET record == CHOOSE r \in FindUnique(rows, jti) : TRUE IN
         IF record.usedAt # {} THEN Throw("Token revoked")
         ELSE IF now > record.expiresAt THEN Throw("Token expired")
         ELSE Ok(record)

verifyInviteToken(rows, jti, now) ==
    IF FindUnique(rows, jti) = {} THEN Throw("Token not found")
    ELSE LET record == CHOOSE r \in FindUnique(rows, jti) : TRUE IN
         IF record.usedAt # {} THEN Throw("Token already used")
         ELSE IF now > record.expiresAt THEN Throw("Token expired")
         ELSE Ok(record)

\* prisma.<table>.update({ where: { jti }, data: { usedAt: new Date() } })
MarkUsed(rows, jti, now) ==
    {IF r.jti = jti THEN [r EXCEPT !.usedAt = {now}] ELSE r : r \in rows}

\* the state after a user was created and invited: the account is inactive
\* and its invite token is in the mail
InitAuth ==
    /\ forecast = Null /\ categories = <<>> /\ receipts = <<>>
    /\ op = <<"idle", "init">>
    /\ input = Null
    /\ result = Null
    /\ tokens = [now |-> 0,
                 user |-> [isActive |-> FALSE, passwordHash |-> Null],
                 accessToken |-> {},
                 inviteToken |-> {TokenRow(InviteJti, 0)},
                 issued |-> {createToken("invite", InviteJti, 0)}]
    /\ pending = <<>>

\* the tokens a client can present
PresentableTokens == tokens.issued \cup {ForgedToken}

\* time passes
Tick ==
    /\ tokens.now < MaxClock
    /\ tokens' = [tokens EXCEPT !.now = @ + 1]
    /\ op' = Returned("tick")
    /\ input' = Null
    /\ result' = Null
    /\ UNCHANGED <<forecast, categories, receipts, pending>>

\* tokenService.cleanupExpiredTokens
CleanupExpiredTokens ==
    /\ tokens' = [tokens EXCEPT
                    !.inviteToken = {r \in @ : ~(r.expiresAt < tokens.now)},
                    !.accessToken = {r \in @ : ~(r.expiresAt < tokens.now)}]
    /\ op' = Returned("cleanupExpiredTokens")
    /\ input' = Null
    /\ result' = [inviteTokensDeleted |->
                      Cardinality({r \in tokens.inviteToken : r.expiresAt < tokens.now}),
                  accessTokensDeleted |->
                      Cardinality({r \in tokens.accessToken : r.expiresAt < tokens.now})]
    /\ UNCHANGED <<forecast, categories, receipts, pending>>

\* POST /api/auth/login
Login ==
    \E password \in Passwords :
        /\ Cardinality({r \in tokens.issued : r.type = "access"}) < Len(AccessJtis)
        /\ op' = Returned("login")
        /\ input' = [password |-> password]
        /\ IF ~tokens.user.isActive
           THEN /\ result' = [status |-> 401, error |-> "Account not activated"]
                /\ UNCHANGED tokens
           ELSE IF ~verifyPassword(password, tokens.user.passwordHash)
           THEN /\ result' = [status |-> 401, error |-> "Invalid credentials"]
                /\ UNCHANGED tokens
           ELSE LET jti == AccessJtis[Cardinality({r \in tokens.issued :
                                                     r.type = "access"}) + 1] IN
                /\ tokens' = [tokens EXCEPT
                                !.accessToken = @ \cup {TokenRow(jti, tokens.now)},
                                !.issued = @ \cup {createToken("access", jti, tokens.now)}]
                /\ result' = [status |-> 200,
                              accessToken |-> createToken("access", jti, tokens.now)]
        /\ UNCHANGED <<forecast, categories, receipts, pending>>

\* what the authenticate middleware does with a bearer token: an error
\* message, or "next"
authenticate(token, rows, now) ==
    LET decoded == verifyToken(token, now) IN
    IF decoded.threw THEN "Invalid or expired token"
    ELSE IF token.type # "access" THEN "Invalid token type"
    ELSE IF verifyAccessToken(rows, token.jti, now).threw THEN "Invalid or expired token"
    ELSE "next"

\* a request to a protected route: GET /api/auth/me, or POST /api/auth/logout,
\* whose handler runs after the middleware's await
Authenticate ==
    \E token \in PresentableTokens, route \in {"me", "logout"} :
        /\ op' = Returned("authenticate")
        /\ input' = [token |-> token, route |-> route]
        /\ LET outcome == authenticate(token, tokens.accessToken, tokens.now) IN
           IF outcome # "next"
           THEN /\ result' = [status |-> 401, error |-> outcome]
                /\ UNCHANGED pending
           ELSE IF route = "me"
           THEN /\ result' = [status |-> 200, error |-> ""]
                /\ UNCHANGED pending
           ELSE /\ Len(pending) < MaxRequests
                /\ result' = [status |-> 0, error |-> ""]
                /\ pending' = Append(pending, [handler |-> "logout",
                                               pc |-> "markAccessTokenUsed",
                                               token |-> token,
                                               password |-> <<>>,
                                               status |-> 0])
        /\ UNCHANGED <<forecast, categories, receipts, tokens>>

\* UserService.logout after the middleware: verifyToken, then the update of
\* usedAt, which throws when the row is gone
Logout ==
    \E i \in 1..Len(pending) :
        /\ pending[i].handler = "logout"
        /\ pending[i].pc = "markAccessTokenUsed"
        /\ op' = Returned("logout")
        /\ input' = [token |-> pending[i].token]
        /\ LET token == pending[i].token IN
           IF verifyToken(token, tokens.now).threw
              \/ FindUnique(tokens.accessToken, token.jti) = {}
           THEN /\ pending' = [pending EXCEPT ![i].pc = "done", ![i].status = 400]
                /\ result' = [status |-> 400]
                /\ UNCHANGED tokens
           ELSE /\ tokens' = [tokens EXCEPT
                                !.accessToken = MarkUsed(@, token.jti, tokens.now)]
                /\ pending' = [pending EXCEPT ![i].pc = "done", ![i].status = 200]
                /\ result' = [status |-> 200]
        /\ UNCHANGED <<forecast, categories, receipts>>

\* POST /api/auth/set-password up to its first await: the password strength,
\* verifyToken, the token type
SetPassword ==
    \E token \in PresentableTokens, password \in Passwords :
        /\ Len(pending) < MaxRequests
        /\ op' = Calling("setPassword")
        /\ input' = [token |-> token, password |-> password]
        /\ result' = Null
        /\ pending' = Append(pending,
              [handler |-> "setPassword",
               pc |-> IF validatePasswordStrength(password) # {}
                         \/ verifyToken(token, tokens.now).threw
                         \/ token.type # "invite"
                      THEN "done" ELSE "verifyInviteToken",
               token |-> token,
               password |-> password,
               status |-> IF validatePasswordStrength(password) # {}
                             \/ verifyToken(token, tokens.now).threw
                             \/ token.type # "invite"
                          THEN 400 ELSE 0])
        /\ UNCHANGED <<forecast, categories, receipts, tokens>>

\* await tokenService.verifyInviteToken(inviteToken, jti)
SetPasswordVerify ==
    \E i \in 1..Len(pending) :
        /\ pending[i].handler = "setPassword"
        /\ pending[i].pc = "verifyInviteToken"
        /\ op' = <<"await", "verifyInviteToken">>
        /\ input' = [token |-> pending[i].token]
        /\ result' = verifyInviteToken(tokens.inviteToken, pending[i].token.jti,
                                       tokens.now)
        /\ pending' = IF result'.threw
                      THEN [pending EXCEPT ![i].pc = "done", ![i].status = 400]
                      ELSE [pending EXCEPT ![i].pc = "user.update"]
        /\ UNCHANGED <<forecast, categories, receipts, tokens>>

\* await hashPassword(newPassword); await this.prisma.user.update(...)
SetPasswordUpdateUser ==
    \E i \in 1..Len(pending) :
        /\ pending[i].handler = "setPassword"
        /\ pending[i].pc = "user.update"
        /\ op' = <<"await", "user.update">>
        /\ input' = [token |-> pending[i].token]
        /\ result' = Null
        /\ tokens' = [tokens EXCEPT
                        !.user = [isActive |-> TRUE,
                                  passwordHash |-> hashPassword(pending[i].password)]]
        /\ pending' = [pending EXCEPT ![i].pc = "markInviteTokenUsed"]
        /\ UNCHANGED <<forecast, categories, receipts>>

\* await tokenService.markInviteTokenUsed(jti), then the response
SetPasswordMarkUsed ==
    \E i \in 1..Len(pending) :
        /\ pending[i].handler = "setPassword"
        /\ pending[i].pc = "markInviteTokenUsed"
        /\ op' = Returned("setPassword")
        /\ input' = [token |-> pending[i].token]
        /\ IF FindUnique(tokens.inviteToken, pending[i].token.jti) = {}
           THEN /\ pending' = [pending EXCEPT ![i].pc = "done", ![i].status = 400]
                /\ result' = [status |-> 400]
                /\ UNCHANGED tokens
           ELSE /\ tokens' = [tokens EXCEPT
                                !.inviteToken = MarkUsed(@, pending[i].token.jti,
                                                         tokens.now)]
                /\ pending' = [pending EXCEPT ![i].pc = "done", ![i].status = 200]
                /\ result' = [status |-> 200]
        /\ UNCHANGED <<forecast, categories, receipts>>

NextAuth ==
    \/ Tick
    \/ CleanupExpiredTokens
    \/ Login
    \/ Authenticate
    \/ Logout
    \/ SetPassword
    \/ SetPasswordVerify
    \/ SetPasswordUpdateUser
    \/ SetPasswordMarkUsed

SpecAuth == InitAuth /\ [][NextAuth]_vars


\* the access tokens for which a logout request was answered 200
LoggedOut ==
    {pending[i].token.jti : i \in {j \in 1..Len(pending) :
        pending[j].handler = "logout" /\ pending[j].status = 200}}

\* C24: once POST /api/auth/logout has succeeded for an access token, every
\* later request that presents that token is answered 401 by authenticate,
\* whatever else happens in between (time passing, token cleanup, new
\* logins).
C24LogoutInvalidatesSession ==
    [][(op' = Returned("authenticate") /\ input'.token.jti \in LoggedOut
            /\ input'.token.signed)
        => result'.status = 401]_vars

\* a logged-out token, not yet expired, was presented and refused
C24Witness ==
    /\ op = Returned("authenticate")
    /\ input.token.signed
    /\ input.token.type = "access"
    /\ input.token.jti \in LoggedOut
    /\ tokens.now < input.token.exp
    /\ result.status = 401

\* C29 as stated: at most one setPassword call with a given invite token
\* succeeds, whether the calls run one after the other or concurrently.
C29Original ==
    Cardinality({i \in 1..Len(pending) :
        /\ pending[i].handler = "setPassword"
        /\ pending[i].token.jti = InviteJti
        /\ pending[i].status = 200}) <= 1

\* what does hold: a setPassword call that reaches verifyInviteToken after
\* another call with the same token was answered 200 is refused
C29SequentialSingleUse ==
    [][(op' = <<"await", "verifyInviteToken">>
          /\ \E i \in 1..Len(pending) :
                /\ pending[i].handler = "setPassword"
                /\ pending[i].token.jti = input'.token.jti
                /\ pending[i].status = 200)
        => result'.threw]_vars


(***************************************************************************)
(* The configuration API with requests in flight together.  Node runs a    *)
(* handler up to its next await and then any other handler may run, so     *)
(* each action below is one database operation of one handler, followed by *)
(* the handler's code up to its next await or its response.                *)
(***************************************************************************)
\* a handler between two awaits (status 0) or answered
Request(handler, pc, id, tiers, status, seen) ==
    [handler |-> handler, pc |-> pc, id |-> id, tiers |-> tiers,
     status |-> status, seen |-> seen]

\* the rules of a request or of stored rows, without the rows' ids
TierPairs(tierRules) ==
    [k \in 1..Len(tierRules) |->
        [minQuantity |-> tierRules[k].minQuantity,
         bonusPercentage |-> tierRules[k].bonusPercentage]]

\* the state after POST /api/categories for 'steak' and POST /api/tier-rules
\* for its second rule
InitRace ==
    /\ forecast = Null
    /\ receipts = <<>>
    /\ tokens = Null
    /\ categories =
         <<[name |-> "steak", mode |-> "PER_ITEM",
            tierRules |-> CreatedTierRules(
                <<[minQuantity |-> 1, bonusPercentage |-> 10],
                  [minQuantity |-> 5, bonusPercentage |-> 20]>>, {})]>>
    /\ op = <<"idle", "init">>
    /\ input = Null
    /\ result = Null
    /\ pending = <<>>

ConcurrentTierBodies ==
    {[minQuantity |-> 3, bonusPercentage |-> 15],
     [minQuantity |-> 4, bonusPercentage |-> 12],
     [minQuantity |-> 1, bonusPercentage |-> 30]}

ConcurrentCategoryBody ==
    [name |-> "steak", mode |-> "PER_ITEM",
     tierRules |-> <<[minQuantity |-> 2, bonusPercentage |-> 15],
                     [minQuantity |-> 6, bonusPercentage |-> 30]>>]

Steak == CategoryIndex(categories, "steak")

\* POST /api/tier-rules: the validator and prisma.category.findUnique
PostTierRuleFindCategory ==
    \E tier \in ConcurrentTierBodies :
        /\ Len(pending) < MaxRequests
        /\ op' = <<"await", "createTierRule">>
        /\ pending' = Append(pending,
              IF validateTierRule(tier) # {}
              THEN Request("createTierRule", "done", 0, <<tier>>, 400, <<>>)
              ELSE IF Steak = 0
              THEN Request("createTierRule", "done", 0, <<tier>>, 404, <<>>)
              ELSE Request("createTierRule", "validateTierRulesLogic", 0, <<tier>>,
                           0, <<>>))
        /\ UNCHANGED <<forecast, categories, receipts, input, result, tokens>>

\* POST /api/tier-rules: await validateTierRulesLogic(categoryId, tier)
PostTierRuleValidate ==
    \E i \in 1..Len(pending) :
        /\ pending[i].handler = "createTierRule"
        /\ pending[i].pc = "validateTierRulesLogic"
        /\ op' = <<"await", "createTierRule">>
        /\ pending' =
             IF validateTierRulesLogic(categories[Steak].tierRules,
                                       pending[i].tiers[1]) # {}
             THEN [pending EXCEPT ![i].pc = "done", ![i].status = 400]
             ELSE [pending EXCEPT ![i].pc = "tierRule.create",
                                  ![i].seen = TierPairs(categories[Steak].tierRules)]
        /\ UNCHANGED <<forecast, categories, receipts, input, result, tokens>>

\* POST /api/tier-rules: await prisma.tierRule.create, then 201
PostTierRuleCreate ==
    \E i \in 1..Len(pending) :
        /\ pending[i].handler = "createTierRule"
        /\ pending[i].pc = "tierRule.create"
        /\ op' = Returned("createTierRule")
        /\ categories' =
             [categories EXCEPT ![Steak].tierRules =
                Append(@, [id |-> NewId(TierIds(categories)),
                           minQuantity |-> pending[i].tiers[1].minQuantity,
                           bonusPercentage |-> pending[i].tiers[1].bonusPercentage])]
        /\ pending' = [pending EXCEPT ![i].pc = "done", ![i].status = 201]
        /\ UNCHANGED <<forecast, receipts, input, result, tokens>>

\* PUT /api/tier-rules/:id: the validator and prisma.tierRule.findUnique
PutTierRuleFindTier ==
    \E id \in 1..MaxTierId, tier \in ConcurrentTierBodies :
        /\ Len(pending) < MaxRequests
        /\ op' = <<"await", "updateTierRule">>
        /\ pending' = Append(pending,
              IF validateTierRule(tier) # {}
              THEN Request("updateTierRule", "done", id, <<tier>>, 400, <<>>)
              ELSE IF TierCategoryIndex(categories, id) = 0
              THEN Request("updateTierRule", "done", id, <<tier>>, 404, <<>>)
              ELSE Request("updateTierRule", "validateTierRulesLogic", id, <<tier>>,
                           0, <<>>))
        /\ UNCHANGED <<forecast, categories, receipts, input, result, tokens>>

\* PUT /api/tier-rules/:id: await validateTierRulesLogic(categoryId, tier, id)
PutTierRuleValidate ==
    \E i \in 1..Len(pending) :
        /\ pending[i].handler = "updateTierRule"
        /\ pending[i].pc = "validateTierRulesLogic"
        /\ op' = <<"await", "updateTierRule">>
        /\ pending' =
             IF validateTierRulesLogic(
                    TiersExcluding(categories[Steak].tierRules, pending[i].id),
                    pending[i].tiers[1]) # {}
             THEN [pending EXCEPT ![i].pc = "done", ![i].status = 400]
             ELSE [pending EXCEPT ![i].pc = "tierRule.update",
                                  ![i].seen = TierPairs(categories[Steak].tierRules)]
        /\ UNCHANGED <<forecast, categories, receipts, input, result, tokens>>

\* PUT /api/tier-rules/:id: await prisma.tierRule.update, which throws when
\* the row is gone (500), then 200
PutTierRuleUpdate ==
    \E i \in 1..Len(pending) :
        /\ pending[i].handler = "updateTierRule"
        /\ pending[i].pc = "tierRule.update"
        /\ op' = Returned("updateTierRule")
        /\ IF TierCategoryIndex(categories, pending[i].id) = 0
           THEN /\ pending' = [pending EXCEPT ![i].pc = "done", ![i].status = 500]
                /\ UNCHANGED categories
           ELSE /\ categories' =
                     [categories EXCEPT ![Steak].tierRules =
                        [k \in 1..Len(@) |->
                            IF @[k].id = pending[i].id
                            THEN [id |-> pending[i].id,
                                  minQuantity |-> pending[i].tiers[1].minQuantity,
                                  bonusPercentage |->
                                      pending[i].tiers[1].bonusPercentage]
                            ELSE @[k]]]
                /\ pending' = [pending EXCEPT ![i].pc = "done", ![i].status = 200]
        /\ UNCHANGED <<forecast, receipts, input, result, tokens>>

\* DELETE /api/tier-rules/:id: prisma.tierRule.findUnique
DeleteTierRuleFindTier ==
    \E id \in 1..MaxTierId :
        /\ Len(pending) < MaxRequests
        /\ op' = <<"await", "deleteTierRule">>
        /\ pending' = Append(pending,
              IF TierCategoryIndex(categories, id) = 0
              THEN Request("deleteTierRule", "done", id, <<>>, 404, <<>>)
              ELSE Request("deleteTierRule", "tierRule.count", id, <<>>, 0, <<>>))
        /\ UNCHANGED <<forecast, categories, receipts, input, result, tokens>>

\* DELETE /api/tier-rules/:id: await prisma.tierRule.count, then the 409
DeleteTierRuleCount ==
    \E i \in 1..Len(pending) :
        /\ pending[i].handler = "deleteTierRule"
        /\ pending[i].pc = "tierRule.count"
        /\ op' = <<"await", "deleteTierRule">>
        /\ pending' =
             IF ~DeleteAllowed(Len(categories[Steak].tierRules))
             THEN [pending EXCEPT ![i].pc = "done", ![i].status = 409]
             ELSE [pending EXCEPT ![i].pc = "tierRule.delete",
                                  ![i].seen = TierPairs(categories[Steak].tierRules)]
        /\ UNCHANGED <<forecast, categories, receipts, input, result, tokens>>

\* DELETE /api/tier-rules/:id: await prisma.tierRule.delete, which throws
\* when the row is gone (500), then 200
DeleteTierRuleDelete ==
    \E i \in 1..Len(pending) :
        /\ pending[i].handler = "deleteTierRule"
        /\ pending[i].pc = "tierRule.delete"
        /\ op' = Returned("deleteTierRule")
        /\ IF TierCategoryIndex(categories, pending[i].id) = 0
           THEN /\ pending' = [pending EXCEPT ![i].pc = "done", ![i].status = 500]
                /\ UNCHANGED categories
           ELSE /\ categories' =
                     [categories EXCEPT ![Steak].tierRules =
                        TiersExcluding(@, pending[i].id)]
                /\ pending' = [pending EXCEPT ![i].pc = "done", ![i].status = 200]
        /\ UNCHANGED <<forecast, receipts, input, result, tokens>>

\* PUT /api/categories/:id: the validator and prisma.category.findUnique
PutCategoryFind ==
    /\ Len(pending) < MaxRequests
    /\ op' = <<"await", "updateCategory">>
    /\ pending' = Append(pending,
          IF validateCategory(ConcurrentCategoryBody) # {}
          THEN Request("updateCategory", "done", 0, ConcurrentCategoryBody.tierRules,
                       400, <<>>)
          ELSE IF Steak = 0
          THEN Request("updateCategory", "done", 0, ConcurrentCategoryBody.tierRules,
                       404, <<>>)
          ELSE Request("updateCategory", "tierRule.deleteMany", 0,
                       ConcurrentCategoryBody.tierRules, 0, <<>>))
    /\ UNCHANGED <<forecast, categories, receipts, input, result, tokens>>

\* PUT /api/categories/:id: await prisma.tierRule.deleteMany({ categoryId });
\* seen keeps the rows it removed
PutCategoryDeleteMany ==
    \E i \in 1..Len(pending) :
        /\ pending[i].handler = "updateCategory"
        /\ pending[i].pc = "tierRule.deleteMany"
        /\ op' = <<"await", "updateCategory">>
        /\ categories' = WithoutTierRules(categories, Steak)
        /\ pending' = [pending EXCEPT ![i].pc = "category.update",
                                      ![i].seen = TierPairs(categories[Steak].tierRules)]
        /\ UNCHANGED <<forecast, receipts, input, result, tokens>>

\* PUT /api/categories/:id: await prisma.category.update with
\* tierRules: { create: tierRules }, then 200
PutCategoryUpdate ==
    \E i \in 1..Len(pending) :
        /\ pending[i].handler = "updateCategory"
        /\ pending[i].pc = "category.update"
        /\ op' = Returned("updateCategory")
        /\ categories' =
             [categories EXCEPT ![Steak].tierRules =
                @ \o CreatedTierRules(pending[i].tiers, TierIds(categories))]
        /\ pending' = [pending EXCEPT ![i].pc = "done", ![i].status = 200]
        /\ UNCHANGED <<forecast, receipts, input, result, tokens>>

\* calculateAllBonuses: await prisma.category.findMany({ include: tierRules })
\* and the check that follows it
FindCategoriesForCalculation ==
    /\ op' = Returned("category.findMany")
    /\ input' = Null
    /\ result' = IF CategoriesWithoutRules(categories) # <<>>
                 THEN [threw |-> TRUE,
                       value |-> <<>>,
                       categoryNames |-> CategoriesWithoutRules(categories)]
                 ELSE [threw |-> FALSE,
                       value |-> TierPairs(categories[Steak].tierRules),
                       categoryNames |-> <<>>]
    /\ UNCHANGED <<forecast, categories, receipts, tokens, pending>>

NextRace ==
    \/ PostTierRuleFindCategory
    \/ PostTierRuleValidate
    \/ PostTierRuleCreate
    \/ PutTierRuleFindTier
    \/ PutTierRuleValidate
    \/ PutTierRuleUpdate
    \/ DeleteTierRuleFindTier
    \/ DeleteTierRuleCount
    \/ DeleteTierRuleDelete
    \/ PutCategoryFind
    \/ PutCategoryDeleteMany
    \/ PutCategoryUpdate
    \/ FindCategoriesForCalculation

SpecRace == InitRace /\ [][NextRace]_vars


\* every request made so far is of one of the given handlers
OnlyRequests(handlers) ==
    \A i \in 1..Len(pending) : pending[i].handler \in handlers

\* C25 as stated: a calculation that runs while a category's tier rules are
\* being updated reads either the complete set from before the update or the
\* complete set after it, never an intermediate or empty set.
C25Original ==
    (op = Returned("category.findMany") /\ OnlyRequests({"updateCategory"})) =>
        \A i \in 1..Len(pending) :
            pending[i].pc = "category.update" =>
                /\ ~result.threw
                /\ result.value \in {pending[i].seen, pending[i].tiers}

\* C27 as stated: of two concurrent POST/PUT /api/tier-rules requests for one
\* category, each valid alone but violating the tier invariant together, at
\* most one succeeds, and the stored rules satisfy the invariant afterwards.
C27Original ==
    OnlyRequests({"createTierRule", "updateTierRule"}) => AllStoredTiersValid

\* C28 as stated: of two concurrent DELETE /api/tier-rules/:id requests for
\* the two rules of a category, at most one succeeds and the category keeps
\* at least one rule.
C28Original ==
    OnlyRequests({"deleteTierRule"}) =>
        /\ Cardinality({i \in 1..Len(pending) : pending[i].status = 200}) <= 1
        /\ Len(categories[Steak].tierRules) >= 1


(***************************************************************************)
(* C30: the receipts of the period against the line items of the report    *)
(***************************************************************************)
\* a field of the line items of a breakdown entry, added up
RECURSIVE SumItems(_, _)
SumItems(items, field) ==
    IF items = <<>> THEN 0
    ELSE Head(items)[field] + SumItems(Tail(items), field)

RECURSIVE SumBreakdownItems(_, _)
SumBreakdownItems(breakdown, field) ==
    IF breakdown = <<>> THEN 0
    ELSE SumItems(Head(breakdown).items, field)
         + SumBreakdownItems(Tail(breakdown), field)

\* a field of every line item of every participant of a report, added up
RECURSIVE SumReportItems(_, _)
SumReportItems(payouts, field) ==
    IF payouts = <<>> THEN 0
    ELSE SumBreakdownItems(Head(payouts).breakdown, field)
         + SumReportItems(Tail(payouts), field)

\* C30 as stated: in every successful forecast-met report over categories
\* with a supported mode, each receipt of the period is counted in exactly
\* one line item, so the line-item quantities add up to the number of
\* receipts and the line-item revenues to the sum of the receipt prices.
C30Original ==
    (/\ ValidRequestReturned
     /\ result.status = 200
     /\ "forecastMet" \in DOMAIN result.service.value
     /\ result.service.value.forecastMet
     /\ \A i \in 1..Len(categories) : categories[i].mode \in validModes) =>
        /\ SumReportItems(result.service.value.payouts, "quantity") = Len(receipts)
        /\ SumReportItems(result.service.value.payouts, "revenue")
               = SumPrices(ReceiptsQuery(receipts))

====
